---- MODULE Spec2Model ----
(***************************************************************************)
(* A model of the MCC 172 host driver (src/lib/mcc172.c): the device       *)
(* registry (open / close), the acquisition controller (scan_start,        *)
(* scan_stop, scan_cleanup, the configuration writes), the producer        *)
(* thread (_scan_thread), the consumer (scan_read) and the SPI             *)
(* command/response transaction (_spi_transfer, _parse_buffer).            *)
(*                                                                         *)
(* One board address is modelled.  The board itself is external: its       *)
(* replies are inputs chosen by \E.  Eighteen specifications share the    *)
(* variables:                                                              *)
(*   Spec      registry and session lifecycle, with the producer thread    *)
(*   SpecUpdate the registry with open_for_update                          *)
(*   SpecRing  producer / consumer on the ring buffer of finite scans      *)
(*   SpecRead  scan_read with each kind of timeout on finite scans         *)
(*   SpecPartial scan_read of less than a finite scan produces             *)
(*   SpecStart scan_start failing at each step or succeeding               *)
(*   SpecTrig  scans that wait for the external trigger                    *)
(*   SpecFinite one finite scan under a fairly scheduled producer          *)
(*   SpecCleanup scans ended by scan_cleanup, producer fairly scheduled    *)
(*   SpecStop  finite scans stopped by scan_stop                           *)
(*   SpecCont  producer / consumer on the ring of a continuous scan        *)
(*   SpecXfer  one _spi_transfer call, byte by byte                        *)
(*   SpecLock  the callers of the bus and the SPI lock                     *)
(*   SpecFrame the frame scanner applied to outbound and inbound frames    *)
(*   SpecBoot  enter_bootloader against a board that becomes ready or not  *)
(*   SpecClock the clock divisor written and read back                     *)
(*   SpecSample the conversion of the three bytes of a sample              *)
(*   SpecCalc  the buffer size of scan_start for chosen operands           *)
(***************************************************************************)
EXTENDS Integers, Sequences, FiniteSets, TLC

----------------------------------------------------------------------------
(* Bounds of the model                                                     *)

\* opens explored for the one address
MaxOpens == 3
\* samples_per_channel values explored by scan_start: 1..MaxSpc
MaxSpc == 2
\* samples of a continuous scan the model follows
MaxContSamples == 1500
\* largest max_read_now the board reports
MaxReadNow == 2
\* ticks of the monotonic clock explored
MaxTime == 4
\* payload bytes of a reply frame: 0..MaxPayload
MaxPayload == 3
\* rx_data_count of a transfer: 0..MaxRxCount
MaxRxCount == 2

----------------------------------------------------------------------------
(* Program constants                                                       *)

NUM_CHANNELS == 2
MAX_SPI_TRANSFER == 4096
SAMPLE_SIZE_BYTES == 3
MSG_RX_HEADER_SIZE == 5
MSG_TX_HEADER_SIZE == 4
MAX_SAMPLES_READ == (MAX_SPI_TRANSFER - MSG_RX_HEADER_SIZE) \div SAMPLE_SIZE_BYTES
MAX_SAMPLE_RATE == 51200
MSG_START == 219
MAX_TX_DATA_SIZE == 256
MAX_SCAN_BUFFER_SIZE_SAMPLES == 16 * 1024 * 1024

CMD_AINSCANSTART == 17
CMD_AINSCANSTATUS == 18
CMD_AINSCANDATA == 19
CMD_AINSCANSTOP == 20
CMD_AINCLOCKCONFIG_R == 21
CMD_AINCLOCKCONFIG_W == 22
CMD_TRIGGERCONFIG_W == 24
CMD_ID == 65
CMD_IEPECONFIG_R == 67
CMD_IEPECONFIG_W == 68

FW_RES_SUCCESS == 0
FW_RES_BAD_PARAMETER == 2
FW_RES_BUSY == 3
FW_RES_TIMEOUT == 5
FW_RES_OTHER_ERROR == 6

U16 == 2 ^ 16

\* uint32_t arithmetic.  TLC's integers end at 2^31 - 1, which stands for
\* UINT32_MAX here: a sum wraps past it to 0 and a difference wraps below 0
\* to it, so a wrapped value compares with the model's small numbers as the
\* code's does.
U32Top == (2 ^ 30 - 1) * 2 + 1
Add32(a, b) == IF a > U32Top - b THEN a - (U32Top - b) - 1 ELSE a + b
Sub32(a, b) == IF a >= b THEN a - b ELSE U32Top - (b - a - 1)

\* A uint32_t at its full width, as two 16-bit halves.
Of32(x) == [hi |-> x \div U16, lo |-> x % U16]
\* the value of one that is below 2^31
Int32(a) == a.hi * U16 + a.lo
Lt32(a, b) == a.hi < b.hi \/ (a.hi = b.hi /\ a.lo < b.lo)
\* a * n in uint32_t arithmetic, for a small n: the carry out of the upper
\* half is dropped
Mul32(a, n) ==
    LET l == a.lo * n
    IN [hi |-> (a.hi * n + l \div U16) % U16, lo |-> l % U16]

\* The result codes of daqhats.h, by name.
Results ==
    {"Success", "BadParameter", "Busy", "Timeout", "LockTimeout",
     "ResourceUnavail", "InvalidDevice", "Undefined"}

\* What a _spi_transfer to a responding or silent board returns in the
\* lifecycle and ring specifications (SpecXfer derives the full mapping).
XferResults == {"Success", "Timeout"}

Min(a, b) == IF a < b THEN a ELSE b
Max(a, b) == IF a > b THEN a ELSE b

COUNT_NORMALIZE(x, c) == (x \div c) * c

----------------------------------------------------------------------------
VARIABLES
    lib_initialized,  \* _mcc172_lib_initialized
    dev_ptr,          \* _devices[address] != NULL
    dev,              \* *_devices[address] (struct mcc172Device)
    dev_heap,         \* the device record's allocation: none / live / freed
    info,             \* the struct mcc172ScanThreadInfo of the scan
    info_heap,        \* the session's allocation: none / live / freed
    scan_buffer,      \* info->scan_buffer, the ring
    thr,              \* the producer thread: its position and locals
    app,              \* the application thread: its position and locals
    hw,               \* the board's acquisition state
    result,           \* what the last API call returned
    app_cmds,         \* SPI commands the current / last API call sent
    hist,             \* history: counters and sample sequences
    xf,               \* one _spi_transfer call in progress
    lk,               \* the SPI lock, the bus and the callers that use them
    calc              \* the last computation made and its operands

vars ==
    <<lib_initialized, dev_ptr, dev, dev_heap, info, info_heap, scan_buffer,
      thr, app, hw, result, app_cmds, hist, xf, lk, calc>>

regVars == <<lib_initialized, dev_ptr, dev, dev_heap>>
sessVars == <<info, info_heap, scan_buffer>>
xfVars == <<xf, lk, calc>>
\* everything but calc
progVars ==
    <<lib_initialized, dev_ptr, dev, dev_heap, info, info_heap, scan_buffer,
      thr, app, hw, result, app_cmds, hist, xf, lk>>

----------------------------------------------------------------------------
(* Data                                                                    *)

Channels == 0 .. (NUM_CHANNELS - 1)

HAT_ID_MCC_172 == 324
\* a product id that is not the MCC 172's
OtherId == HAT_ID_MCC_172 - 1

DefaultSlopes == [c \in Channels |-> 1]
DefaultOffsets == [c \in Channels |-> 0]
\* _set_defaults
SetDefaults == [slopes |-> DefaultSlopes, offsets |-> DefaultOffsets]
\* a factory calibration as _parse_factory_data accepts it
ParsedFactory == [slopes |-> [c \in Channels |-> 2], offsets |-> [c \in Channels |-> 1]]

\* The record open() allocates: calloc, then scan_info = NULL, handle_count = 1.
NewDev(fd_ok, factory) ==
    [handle_count |-> 1, fw_version |-> 0, spi_fd |-> fd_ok,
     trigger_source |-> 0, trigger_mode |-> 0,
     slopes |-> factory.slopes, offsets |-> factory.offsets,
     scan_info |-> FALSE]

\* What the model holds in dev while _devices[address] is NULL.
NullDev == [NewDev(FALSE, SetDefaults) EXCEPT !.handle_count = 0]

\* A zeroed struct mcc172ScanThreadInfo (calloc).
ZeroInfo ==
    [handle |-> FALSE, buffer_size |-> 0, write_index |-> 0, read_index |-> 0,
     samples_transferred |-> 0, buffer_depth |-> 0, read_threshold |-> 0,
     options |-> {}, hw_overrun |-> FALSE, buffer_overrun |-> FALSE,
     thread_running |-> FALSE, stop_thread |-> FALSE, triggered |-> FALSE,
     scan_running |-> FALSE, channel_count |-> 0, channel_index |-> 0,
     channels |-> <<>>, slopes |-> <<>>, offsets |-> <<>>]

\* One cell of the ring: the sample's place in the board's stream (0: the
\* calloc'ed zero) and the channel_index it was converted with.
ZeroCell == [id |-> 0, ch |-> 0]

\* The producer thread.  pc: none, created (pthread_create returned, the
\* thread has not run yet), loop, data, depth_load, depth_store, after_data,
\* exit, done (returned), crashed.
NoThread ==
    [pc |-> "none", done |-> FALSE, available_samples |-> 0, read_count |-> 0,
     scan_running |-> FALSE, tmp |-> 0]

\* The application thread.  pc: idle, or inside a call that takes several
\* steps: start_flag (scan_start after pthread_create), join (scan_cleanup
\* in pthread_join), rd_copy / rd_min / rd_load / rd_store / rd_check
\* (scan_read).  op: the API call it is in, or the last one it made;
\* read_all: a scan_read called with samples_per_channel == -1; target and
\* cap: the samples_to_read a scan_read began with and its
\* buffer_size_samples.
IdleApp ==
    [pc |-> "idle", op |-> "none", to_read |-> 0, nread |-> 0, cur |-> 0,
     tmp |-> 0, tmo |-> "neg", timed_out |-> FALSE, stat |-> {},
     read_all |-> FALSE, target |-> 0, cap |-> 0]

\* The application thread after a call of op returned.
Called(op) == [IdleApp EXCEPT !.op = op]

\* The board: scan running, trigger seen, FIFO overrun, samples waiting in
\* its FIFO, samples emitted so far, and the samples it will emit in all.
IdleHw ==
    [running |-> FALSE, triggered |-> FALSE, overrun |-> FALSE,
     avail |-> 0, emitted |-> 0, limit |-> 0]

\* History.  quiet: a scan_read of this session has seen thread_running
\* false with buffer_depth 0.  clobbered: the producer has written over a
\* sample that scan_read had not returned yet.  trig_reply: a status reply
\* of this session had the triggered bit set.
NoHist ==
    [opens |-> 0, opens_ok |-> 0, closes_ok |-> 0, bad_free |-> FALSE,
     produced |-> <<>>, delivered |-> <<>>, over |-> FALSE, quiet |-> FALSE,
     clobbered |-> FALSE, trig_reply |-> FALSE]

\* A reply frame as the board sends it: command, status, payload count.
NoFrame == [cmd |-> 0, status |-> 0, count |-> 0]

\* One _spi_transfer call.  pc: none, poll (the ready-poll loop), body (the
\* loop that reads and parses the reply), done.  now: the monotonic clock;
\* begin: the clock when the ready-poll began; ready: a non-zero ready byte
\* was read; frame: the frame the board put in the reply read last.
NoXfer ==
    [pc |-> "none", now |-> 0, command |-> 0, rx_data_count |-> 0,
     reply_timeout |-> 0, start_time |-> 0, begin |-> 0, rx_buffer |-> <<>>,
     ready |-> FALSE, frame |-> NoFrame, found |-> FALSE, frame_start |-> 0,
     result |-> "None", rx_data |-> <<>>, copied |-> FALSE]

\* The callers of the SPI bus: the producer thread and the application
\* thread of this process (board 0), and another process (board 1).
Callers == {"thr", "app", "other"}
AddressOf(c) == IF c = "other" THEN 1 ELSE 0

\* The lock and the bus.  held[c]: locks c holds; selected: the board the
\* chip select is routed to; pc[c]: idle, locked (lock obtained), mode,
\* cmd, poll, body (_spi_transfer), xfer (bl_transfer), reset
\* (enter_bootloader), sleep (the producer between two transfers); op[c]:
\* the call c is in; txn[c]: the calls c has made; io[c]: SPI messages of
\* c's current or last call; res[c]: what that call returned; interleaved:
\* a message went over the bus between two messages of another call;
\* misrouted: a message went to a board its caller had not selected;
\* unheld: a lock was released that was not held.
\* no computation made yet
NoCalc == [fn |-> "none"]

NoLock ==
    [held |-> [c \in Callers |-> 0], selected |-> -1,
     pc |-> [c \in Callers |-> "idle"], op |-> [c \in Callers |-> "none"],
     txn |-> [c \in Callers |-> 0], io |-> [c \in Callers |-> 0],
     res |-> [c \in Callers |-> "None"], interleaved |-> FALSE,
     misrouted |-> FALSE, unheld |-> FALSE]

----------------------------------------------------------------------------
(* _check_addr: the address is in range (one address is modelled), the     *)
(* library is initialised, the record is allocated and its SPI descriptor  *)
(* is valid.                                                               *)
\* (a check of the library flag alone)
CheckAddrLibOnly == lib_initialized
CheckAddr == lib_initialized /\ dev_ptr /\ dev.spi_fd

\* mcc172_is_open
IsOpen == IF dev_ptr THEN 1 ELSE 0

----------------------------------------------------------------------------
(* mcc172_open                                                             *)

\* What one CMD_ID transfer can give: an error, or id_data[0], id_data[1].
IdReplies ==
    {[res |-> "Timeout", id |-> 0, ver |-> 0],
     [res |-> "Success", id |-> HAT_ID_MCC_172, ver |-> 1],
     [res |-> "Success", id |-> OtherId, ver |-> 1]}

\* the do/while bound of the ID handshake
IdAttempts == 2

\* The value returned when every attempt of the handshake failed: the code
\* falls out of the loop to "return RESULT_SUCCESS".
IdFallthrough(ret) == "Success"

\* The ID handshake of open(): replies[k] answers attempt k.  Gives the value
\* returned, whether fw_version is stored (and which), whether the record is
\* freed, and the number of CMD_ID commands sent.
RECURSIVE IdLoop(_, _)
IdLoop(replies, attempts) ==
    LET r == replies[attempts + 1] IN
    IF r.res = "Success"
    THEN IF r.id = HAT_ID_MCC_172
         THEN [ret |-> "Success", store |-> TRUE, ver |-> r.ver,
               free |-> FALSE, sent |-> attempts + 1]
         ELSE [ret |-> "InvalidDevice", store |-> FALSE, ver |-> 0,
               free |-> TRUE, sent |-> attempts + 1]
    ELSE IF attempts + 1 < IdAttempts
         THEN IdLoop(replies, attempts + 1)
         ELSE [ret |-> IdFallthrough(r.res), store |-> FALSE, ver |-> 0,
               free |-> FALSE, sent |-> attempts + 1]

\* free() of the device record: a record that is not live is a bad free.
FreeDevHist(h) == [h EXCEPT !.bad_free = @ \/ (dev_heap # "live")]

\* hat: what _hat_info finds in the EEPROM (an MCC 172 with calibration data
\* that parses, one without, another product, nothing).  spi_ok: open() of
\* the spidev succeeds.  replies: the board's answers to the ID attempts.
Open(hat, spi_ok, replies) ==
    /\ app.pc = "idle"
    /\ hist.opens < MaxOpens
    /\ lib_initialized' = TRUE
    /\ LET fresh == ~dev_ptr
           factory == IF hat = "mcc172" THEN ParsedFactory ELSE SetDefaults
           id == IdLoop(replies, 0)
           h1 == [hist EXCEPT !.opens = @ + 1]
       IN
       IF fresh /\ hat = "other"
       THEN /\ result' = "InvalidDevice"
            /\ app_cmds' = <<>>
            /\ hist' = h1
            /\ UNCHANGED <<dev_ptr, dev, dev_heap>>
       ELSE IF fresh /\ ~spi_ok
       THEN \* allocated, then freed again: open() of the spidev failed
            /\ result' = "ResourceUnavail"
            /\ app_cmds' = <<>>
            /\ hist' = h1
            /\ dev_heap' = "freed"
            /\ UNCHANGED <<dev_ptr, dev>>
       ELSE LET d0 == IF fresh THEN NewDev(TRUE, factory)
                      ELSE [dev EXCEPT !.handle_count = (@ + 1) % U16]
                d1 == IF id.store THEN [d0 EXCEPT !.fw_version = id.ver] ELSE d0
            IN
            /\ result' = id.ret
            /\ app_cmds' = [k \in 1 .. id.sent |-> CMD_ID]
            /\ IF id.free
               THEN /\ dev_ptr' = FALSE
                    /\ dev' = NullDev
                    /\ dev_heap' = "freed"
                    /\ hist' = h1
               ELSE /\ dev_ptr' = TRUE
                    /\ dev' = d1
                    /\ dev_heap' = "live"
                    /\ hist' = [h1 EXCEPT !.opens_ok =
                                    IF id.ret = "Success" THEN @ + 1 ELSE @]
    /\ app' = Called("open")
    /\ UNCHANGED <<sessVars, thr, hw, xfVars>>

\* mcc172_open_for_update: mcc172_open, and when that did not return
\* Success and left _devices[address] NULL, the allocation of open() again
\* without the ID handshake.  (open() never fails with the record in place,
\* so the handle_count++ branch is not reached.)
OpenForUpdate(hat, spi_ok, replies) ==
    /\ app.pc = "idle"
    /\ hist.opens < MaxOpens
    /\ lib_initialized' = TRUE
    /\ LET fresh == ~dev_ptr
           factory == IF hat = "mcc172" THEN ParsedFactory ELSE SetDefaults
           id == IdLoop(replies, 0)
           h1 == [hist EXCEPT !.opens = @ + 1]
       IN
       IF hat = "other" /\ (fresh \/ id.free)
       THEN \* open() failed and _hat_info finds another product
            /\ result' = "InvalidDevice"
            /\ app_cmds' = IF fresh THEN <<>> ELSE [k \in 1 .. id.sent |-> CMD_ID]
            /\ hist' = h1
            /\ IF fresh
               THEN UNCHANGED <<dev_ptr, dev, dev_heap>>
               ELSE dev_ptr' = FALSE /\ dev' = NullDev /\ dev_heap' = "freed"
       ELSE IF ~spi_ok /\ (fresh \/ id.free)
       THEN \* allocated, then freed again: open() of the spidev failed
            /\ result' = "ResourceUnavail"
            /\ app_cmds' = IF fresh THEN <<>> ELSE [k \in 1 .. id.sent |-> CMD_ID]
            /\ hist' = h1
            /\ dev_heap' = "freed"
            /\ IF fresh
               THEN UNCHANGED <<dev_ptr, dev>>
               ELSE dev_ptr' = FALSE /\ dev' = NullDev
       ELSE LET d0 == IF fresh THEN NewDev(TRUE, factory)
                      ELSE [dev EXCEPT !.handle_count = (@ + 1) % U16]
                d1 == IF id.store THEN [d0 EXCEPT !.fw_version = id.ver] ELSE d0
            IN
            /\ result' = "Success"
            /\ app_cmds' = [k \in 1 .. id.sent |-> CMD_ID]
            /\ dev_ptr' = TRUE
            /\ dev' = IF id.free THEN NewDev(TRUE, factory) ELSE d1
            /\ dev_heap' = "live"
            /\ hist' = [h1 EXCEPT !.opens_ok = @ + 1]
    /\ app' = Called("open_for_update")
    /\ UNCHANGED <<sessVars, thr, hw, xfVars>>

----------------------------------------------------------------------------
(* The configuration writes                                                *)

\* "don't allow changing while scan is running": _devices[address]->scan_info
\* is not NULL.
ScanBusy == dev.scan_info

\* An API call that returns at once: its result and the commands it sent.
Return(op, r, cmds) ==
    /\ result' = r
    /\ app_cmds' = cmds
    /\ app' = Called(op)

\* mcc172_calibration_coefficient_write
CalWrite(channel, slope, offset) ==
    /\ app.pc = "idle"
    /\ IF ~CheckAddr \/ channel >= NUM_CHANNELS
       THEN Return("cal_write", "BadParameter", <<>>) /\ UNCHANGED dev
       ELSE IF ScanBusy
       THEN Return("cal_write", "Busy", <<>>) /\ UNCHANGED dev
       ELSE /\ Return("cal_write", "Success", <<>>)
            /\ dev' = [dev EXCEPT !.slopes[channel] = slope,
                                  !.offsets[channel] = offset]
    /\ UNCHANGED <<lib_initialized, dev_ptr, dev_heap, sessVars, thr, hw,
                   hist, xfVars>>

\* mcc172_IEPE_config_write: read the configuration byte, change the
\* channel's bit, write it back.  r1, r2: the results of the two transfers.
IEPEWrite(channel, config, r1, r2) ==
    /\ app.pc = "idle"
    /\ IF ~CheckAddr \/ channel >= NUM_CHANNELS \/ config > 1
       THEN Return("iepe_write", "BadParameter", <<>>)
       ELSE IF ScanBusy
       THEN Return("iepe_write", "Busy", <<>>)
       ELSE IF r1 # "Success"
       THEN Return("iepe_write", r1, <<CMD_IEPECONFIG_R>>)
       ELSE Return("iepe_write", r2, <<CMD_IEPECONFIG_R, CMD_IEPECONFIG_W>>)
    /\ UNCHANGED <<regVars, sessVars, thr, hw, hist, xfVars>>

\* mcc172_a_in_clock_config_write.  r: the result of the transfer.
ClockWrite(clock_source, r) ==
    /\ app.pc = "idle"
    /\ IF ~CheckAddr \/ clock_source > 1
       THEN Return("clock_write", "BadParameter", <<>>)
       ELSE IF ScanBusy
       THEN Return("clock_write", "Busy", <<>>)
       ELSE Return("clock_write", r, <<CMD_AINCLOCKCONFIG_W>>)
    /\ UNCHANGED <<regVars, sessVars, thr, hw, hist, xfVars>>

TRIG_ACTIVE_LOW == 3

\* mcc172_trigger_config: the source and mode are cached before the transfer.
TriggerConfig(source, mode, r) ==
    /\ app.pc = "idle"
    /\ IF ~CheckAddr \/ source > 2 \/ mode > TRIG_ACTIVE_LOW
       THEN Return("trigger_config", "BadParameter", <<>>) /\ UNCHANGED dev
       ELSE IF ScanBusy
       THEN Return("trigger_config", "Busy", <<>>) /\ UNCHANGED dev
       ELSE /\ Return("trigger_config", r, <<CMD_TRIGGERCONFIG_W>>)
            /\ dev' = [dev EXCEPT !.trigger_source = source,
                                  !.trigger_mode = mode]
    /\ UNCHANGED <<lib_initialized, dev_ptr, dev_heap, sessVars, thr, hw,
                   hist, xfVars>>

----------------------------------------------------------------------------
(* mcc172_a_in_scan_cleanup and mcc172_close                               *)

\* pthread_join returns once the producer has returned from _scan_thread.
\* (a join that does not wait)
ThreadJoinedAtOnce == TRUE
ThreadJoined == thr.pc = "done"

\* close() frees the record when the decremented handle count is zero.
CloseFrees(h) == h = 0

\* The end of a call whose scan_cleanup part left the device record d:
\* scan_cleanup returns; close goes on to drop its handle.
FinishCall(op, d) ==
    /\ result' = "Success"
    /\ IF op = "close"
       THEN LET h == (d.handle_count - 1) % U16 IN
            IF CloseFrees(h)
            THEN /\ dev_ptr' = FALSE
                 /\ dev' = NullDev
                 /\ dev_heap' = "freed"
                 /\ hist' = FreeDevHist([hist EXCEPT !.closes_ok = @ + 1])
            ELSE /\ dev' = [d EXCEPT !.handle_count = h]
                 /\ hist' = [hist EXCEPT !.closes_ok = @ + 1]
                 /\ UNCHANGED <<dev_ptr, dev_heap>>
       ELSE /\ dev' = d
            /\ UNCHANGED <<dev_ptr, dev_heap, hist>>

\* free(scan_buffer); free(scan_info); scan_info = NULL
FreeSession ==
    /\ info_heap' = "freed"
    /\ info' = ZeroInfo
    /\ scan_buffer' = <<>>

\* The call up to pthread_join.  op: "cleanup" (mcc172_a_in_scan_cleanup) or
\* "close" (mcc172_close, which runs the cleanup first).
CleanupBegin(op) ==
    /\ app.pc = "idle"
    /\ app_cmds' = <<>>
    /\ UNCHANGED <<lib_initialized, hw, xfVars>>
    /\ IF ~CheckAddr
       THEN /\ result' = "BadParameter"
            /\ app' = Called(op)
            /\ UNCHANGED <<dev_ptr, dev, dev_heap, sessVars, thr, hist>>
       ELSE IF ~dev.scan_info
       THEN /\ FinishCall(op, dev)
            /\ app' = Called(op)
            /\ UNCHANGED <<sessVars, thr>>
       ELSE IF info.handle
       THEN \* stop_thread = true, then wait in pthread_join
            /\ info' = [info EXCEPT !.stop_thread = TRUE]
            /\ app' = [IdleApp EXCEPT !.pc = "join", !.op = op]
            /\ UNCHANGED <<dev_ptr, dev, dev_heap, info_heap, scan_buffer, thr,
                           result, hist>>
       ELSE /\ FreeSession
            /\ FinishCall(op, [dev EXCEPT !.scan_info = FALSE])
            /\ app' = Called(op)
            /\ UNCHANGED thr

ScanCleanup == CleanupBegin("cleanup")
Close == CleanupBegin("close")

\* pthread_join has returned: handle = 0, the buffers are freed, and the
\* call ends.
CleanupJoin ==
    /\ app.pc = "join"
    /\ ThreadJoined
    /\ FreeSession
    /\ thr' = IF thr.pc = "done" THEN NoThread ELSE thr
    /\ FinishCall(app.op, [dev EXCEPT !.scan_info = FALSE])
    /\ app' = Called(app.op)
    /\ UNCHANGED <<lib_initialized, hw, app_cmds, xfVars>>

----------------------------------------------------------------------------
(* mcc172_a_in_scan_start                                                  *)

BitSet(mask, c) == (mask \div (2 ^ c)) % 2 = 1

\* the channels of the mask, in ascending order
ActiveChannels(mask) == SelectSeq(<<0, 1>>, LAMBDA c : BitSet(mask, c))

\* The sample rate mcc172_a_in_clock_config_read reports for the board's
\* divisor byte b is MAX_SAMPLE_RATE / (b + 1); RateLE(b, x): that rate <= x.
RateLE(b, x) == MAX_SAMPLE_RATE <= x * (b + 1)

\* info->buffer_size as scan_start computes it, in uint32_t arithmetic;
\* samples_per_channel is given by its halves
BufferSize32(options, samples_per_channel, num_channels, b) ==
    LET floor == IF RateLE(b, 1024) THEN Of32(1000)
                 ELSE IF RateLE(b, 10240) THEN Of32(10000) ELSE Of32(100000)
        per == IF "CONTINUOUS" \in options
               THEN (IF Lt32(floor, samples_per_channel)
                     THEN samples_per_channel ELSE floor)
               ELSE samples_per_channel
    IN Mul32(per, num_channels)

\* the buffer size in samples of the scans the session specifications start
BufferSize(options, samples_per_channel, num_channels, b) ==
    Int32(BufferSize32(options, Of32(samples_per_channel), num_channels, b))

\* (uint16_t)(sample_rate_per_channel / 10), at most MAX_SAMPLES_READ, rounded
\* down to whole scans, at least one scan
ReadThreshold(num_channels, b) ==
    LET t0 == ((MAX_SAMPLE_RATE \div 10) \div (b + 1)) % U16
        t1 == IF t0 > MAX_SAMPLES_READ THEN MAX_SAMPLES_READ ELSE t0
        t2 == COUNT_NORMALIZE(t1, num_channels)
    IN IF t2 = 0 THEN num_channels ELSE t2

\* The session as scan_start has filled it in when it creates the thread.
NewInfo(mask, samples_per_channel, options, b) ==
    LET chans == ActiveChannels(mask)
        n == Len(chans)
    IN [ZeroInfo EXCEPT
          !.options = options,
          !.channels = chans,
          !.slopes = [i \in 1 .. n |-> dev.slopes[chans[i]]],
          !.offsets = [i \in 1 .. n |-> dev.offsets[chans[i]]],
          !.channel_count = n,
          !.buffer_size = BufferSize(options, samples_per_channel, n, b),
          !.read_threshold = ReadThreshold(n, b),
          !.handle = TRUE]

\* The scan count scan_start sends: 0 asks for a continuous scan.
ScanCount(options, samples_per_channel) ==
    IF "CONTINUOUS" \in options THEN 0 ELSE samples_per_channel

\* (the mask sent as it was passed)
ChannelMaskSentPlain(mask, options) == mask
\* buffer[4] of AINSCANSTART: channel_mask |= 0x04 with OPTS_EXTTRIGGER (the
\* channel bits are below 0x04)
ChannelMaskSent(mask, options) ==
    IF "EXTTRIGGER" \in options THEN mask + 4 ELSE mask

\* The board accepts AINSCANSTART: it runs, triggered at once unless the
\* trigger-enable bit 0x04 is set in the channel mask it received, and will
\* acquire scan_count scans of the mask's channels (of a continuous scan the
\* model follows the first MaxContSamples samples).
HwArmed(mask_sent, scan_count, num_channels) ==
    [hw EXCEPT !.running = TRUE, !.triggered = ~BitSet(mask_sent, 2),
               !.overrun = FALSE, !.avail = 0, !.emitted = 0,
               !.limit = IF scan_count = 0 THEN MaxContSamples
                         ELSE scan_count * num_channels]

\* The steps of scan_start that can fail, in order.
StartFails == {"none", "session", "clock", "buffer", "attr", "start", "create"}

\* (a return that frees nothing and leaves scan_info set)
StartUnwindLeaks(r, cmds) ==
    /\ Return("scan_start", r, cmds)
    /\ info_heap' = "live"
    /\ dev' = [dev EXCEPT !.scan_info = TRUE]
    /\ UNCHANGED <<info, scan_buffer, thr, hist>>
\* A failure after the session was allocated frees it again.
StartUnwind(r, cmds) ==
    /\ Return("scan_start", r, cmds)
    /\ info_heap' = "freed"
    /\ UNCHANGED <<dev, info, scan_buffer, thr, hist>>

\* scan_start up to and including pthread_create.  b: the divisor byte the
\* board reports once its clock is in sync.  fail: the step that fails;
\* err: the error of a failing transfer.
ScanStart(mask, samples_per_channel, options, b, fail, err) ==
    /\ app.pc = "idle"
    \* one producer thread is modelled: no new session while a thread whose
    \* device record was freed under it is still there
    /\ (CheckAddr /\ ~dev.scan_info) => thr.pc = "none"
    /\ UNCHANGED <<lib_initialized, dev_ptr, dev_heap, xfVars>>
    /\ IF \/ ~CheckAddr
          \/ mask = 0
          \/ mask >= 2 ^ NUM_CHANNELS
          \/ (samples_per_channel = 0 /\ "CONTINUOUS" \notin options)
       THEN /\ Return("scan_start", "BadParameter", <<>>)
            /\ UNCHANGED <<dev, sessVars, thr, hw, hist>>
       ELSE IF dev.scan_info
       THEN /\ Return("scan_start", "Busy", <<>>)
            /\ UNCHANGED <<dev, sessVars, thr, hw, hist>>
       ELSE IF fail = "session"
       THEN /\ Return("scan_start", "ResourceUnavail", <<>>)
            /\ UNCHANGED <<dev, sessVars, thr, hw, hist>>
       ELSE IF fail = "clock"
       THEN StartUnwind(err, <<CMD_AINCLOCKCONFIG_R>>) /\ UNCHANGED hw
       ELSE IF fail \in {"buffer", "attr"}
       THEN StartUnwind("ResourceUnavail", <<CMD_AINCLOCKCONFIG_R>>)
            /\ UNCHANGED hw
       ELSE IF fail = "start"
       THEN StartUnwind(err, <<CMD_AINCLOCKCONFIG_R, CMD_AINSCANSTART>>)
            /\ UNCHANGED hw
       ELSE IF fail = "create"
       THEN \* the scan was started: stop it again
            /\ StartUnwind("ResourceUnavail",
                   <<CMD_AINCLOCKCONFIG_R, CMD_AINSCANSTART, CMD_AINSCANSTOP>>)
            /\ hw' = [HwArmed(ChannelMaskSent(mask, options),
                              ScanCount(options, samples_per_channel),
                              Len(ActiveChannels(mask)))
                        EXCEPT !.running = FALSE]
       ELSE /\ app_cmds' = <<CMD_AINCLOCKCONFIG_R, CMD_AINSCANSTART>>
            /\ info' = NewInfo(mask, samples_per_channel, options, b)
            /\ info_heap' = "live"
            /\ scan_buffer' = [i \in 0 .. (info'.buffer_size - 1) |-> ZeroCell]
            /\ dev' = [dev EXCEPT !.scan_info = TRUE]
            /\ thr' = [NoThread EXCEPT !.pc = "created"]
            /\ app' = [IdleApp EXCEPT !.pc = "start_flag", !.op = "scan_start"]
            /\ hw' = HwArmed(ChannelMaskSent(mask, options),
                             ScanCount(options, samples_per_channel),
                             info'.channel_count)
            /\ hist' = [hist EXCEPT !.produced = <<>>, !.delivered = <<>>,
                                    !.over = FALSE, !.quiet = FALSE,
                                    !.clobbered = FALSE, !.trig_reply = FALSE]
            /\ UNCHANGED result

\* the last statement of scan_start: dev->scan_info->scan_running = true
StartFlag ==
    /\ app.pc = "start_flag"
    /\ info' = [info EXCEPT !.scan_running = TRUE]
    /\ result' = "Success"
    /\ app' = Called("scan_start")
    /\ UNCHANGED <<regVars, info_heap, scan_buffer, thr, hw, app_cmds, hist, xfVars>>

\* mcc172_a_in_scan_stop.  r: the result of the transfer.
ScanStop(r) ==
    /\ app.pc = "idle"
    /\ IF ~CheckAddr
       THEN Return("scan_stop", "BadParameter", <<>>) /\ UNCHANGED hw
       ELSE /\ Return("scan_stop", r, <<CMD_AINSCANSTOP>>)
            /\ hw' = IF r = "Success" THEN [hw EXCEPT !.running = FALSE] ELSE hw
    /\ UNCHANGED <<regVars, sessVars, thr, hist, xfVars>>

----------------------------------------------------------------------------
(* The board                                                               *)

\* The board acquires n more samples; after the last one of the scan it
\* stops running by itself.
HwEmit(n) ==
    /\ hw.running /\ hw.triggered /\ ~hw.overrun
    /\ hw.emitted + n <= hw.limit
    /\ hw' = [hw EXCEPT !.emitted = @ + n, !.avail = @ + n,
                        !.running = (hw.emitted + n < hw.limit)]
    /\ UNCHANGED <<regVars, sessVars, thr, app, result, app_cmds, hist, xfVars>>

\* The external trigger arrives.
HwTrigger ==
    /\ hw.running /\ ~hw.triggered
    /\ hw' = [hw EXCEPT !.triggered = TRUE]
    /\ UNCHANGED <<regVars, sessVars, thr, app, result, app_cmds, hist, xfVars>>

\* The board stops reporting its triggered bit (the bit is the board's to
\* report: once the scan is over nothing obliges it to keep the bit set).
HwUntrigger ==
    /\ hw.triggered /\ ~hw.running /\ hw.emitted > 0
    /\ hw' = [hw EXCEPT !.triggered = FALSE]
    /\ UNCHANGED <<regVars, sessVars, thr, app, result, app_cmds, hist, xfVars>>

\* The board's FIFO overflows.
HwOverrun ==
    /\ hw.running /\ hw.avail > 0 /\ ~hw.overrun
    /\ hw' = [hw EXCEPT !.overrun = TRUE]
    /\ UNCHANGED <<regVars, sessVars, thr, app, result, app_cmds, hist, xfVars>>

----------------------------------------------------------------------------
(* _scan_thread                                                            *)

\* The thread begins: it reads _devices[address]->scan_info (a NULL record
\* is dereferenced), returns at once if the address or the session is not
\* valid, and otherwise sets thread_running.
ThreadStart ==
    /\ thr.pc = "created"
    /\ IF ~dev_ptr
       THEN \* the NULL dereference ends the process, application included
            /\ thr' = [thr EXCEPT !.pc = "crashed"]
            /\ app' = [app EXCEPT !.pc = "crashed"]
            /\ UNCHANGED info
       ELSE IF ~CheckAddr \/ ~dev.scan_info
       THEN thr' = [thr EXCEPT !.pc = "done"] /\ UNCHANGED <<info, app>>
       ELSE /\ thr' = [thr EXCEPT !.pc = "loop", !.done = FALSE]
            /\ info' = [info EXCEPT !.thread_running = TRUE,
                                    !.hw_overrun = FALSE]
            /\ UNCHANGED app
    /\ UNCHANGED <<regVars, info_heap, scan_buffer, hw, result, app_cmds,
                   hist, xfVars>>

\* (a loop that ends on done alone)
ThreadLoopExitWhenDone ==
    /\ thr.pc = "loop"
    /\ thr.done
    /\ thr' = [thr EXCEPT !.pc = "exit"]
    /\ UNCHANGED <<regVars, sessVars, app, hw, result, app_cmds, hist, xfVars>>

\* while (!info->stop_thread && !done)
ThreadLoopExit ==
    /\ thr.pc = "loop"
    /\ info.stop_thread \/ thr.done
    /\ thr' = [thr EXCEPT !.pc = "exit"]
    /\ UNCHANGED <<regVars, sessVars, app, hw, result, app_cmds, hist, xfVars>>

\* how much data to read after a status reply
ReadCount(scan_running, available_samples, max_read_now) ==
    IF \/ ~scan_running
       \/ available_samples >= info.read_threshold
       \/ available_samples > max_read_now
    THEN Min(Min(available_samples, max_read_now), MAX_SAMPLES_READ)
    ELSE 0

\* "handle wrap at end of buffer": a read never runs past the ring's end
ClampToEnd(read_count) ==
    IF info.buffer_size - info.write_index < read_count
    THEN info.buffer_size - info.write_index
    ELSE read_count

\* if (!scan_running && (available_samples == read_count)): the scan ended
ScanEnded(scan_running, available_samples, read_count) ==
    ~scan_running /\ available_samples = read_count

\* One status poll.  r: the result of the AINSCANSTATUS transfer (a freed
\* device record makes it BadParameter); max_read_now: as the board reports.
ThreadStatus(r, max_read_now) ==
    /\ thr.pc = "loop"
    /\ ~(info.stop_thread \/ thr.done)
    /\ UNCHANGED <<regVars, info_heap, scan_buffer, app, hw, result, app_cmds,
                   xfVars>>
    /\ hist' = [hist EXCEPT !.trig_reply =
                   @ \/ (CheckAddr /\ r = "Success" /\ hw.triggered)]
    /\ IF ~CheckAddr \/ r # "Success"
       THEN UNCHANGED <<info, thr>>
       ELSE LET available_samples == hw.avail % U16
                scan_running == hw.running
                i1 == [info EXCEPT !.hw_overrun = hw.overrun,
                                   !.triggered = hw.triggered]
                rc == ReadCount(scan_running, available_samples, max_read_now)
            IN
            IF i1.hw_overrun
            THEN /\ info' = [i1 EXCEPT !.scan_running = FALSE]
                 /\ thr' = [thr EXCEPT !.done = TRUE]
            ELSE IF ~i1.triggered
            THEN /\ info' = i1
                 /\ UNCHANGED thr
            ELSE IF rc > 0
            THEN /\ info' = i1
                 /\ thr' = [thr EXCEPT !.pc = "data",
                               !.available_samples = available_samples,
                               !.scan_running = scan_running,
                               !.read_count = ClampToEnd(rc)]
            ELSE IF ScanEnded(scan_running, available_samples, rc)
            THEN /\ info' = [i1 EXCEPT !.scan_running = FALSE]
                 /\ thr' = [thr EXCEPT !.done = TRUE]
            ELSE /\ info' = i1
                 /\ UNCHANGED thr

\* The thread back at the head of its loop; the locals of the iteration are
\* dead until the next status reply assigns them.
AtLoop(t) == [NoThread EXCEPT !.pc = "loop", !.done = t.done]

\* The end of an iteration that had read_count > 0.
IterationEnd(i, t) ==
    IF ScanEnded(t.scan_running, t.available_samples, t.read_count)
    THEN /\ info' = [i EXCEPT !.scan_running = FALSE]
         /\ thr' = AtLoop([t EXCEPT !.done = TRUE])
    ELSE /\ info' = i
         /\ thr' = AtLoop(t)

\* the ids of the samples one AINSCANDATA reply carries: the oldest
\* read_count samples of the board's FIFO
FifoIds(read_count) ==
    [k \in 1 .. read_count |-> hw.emitted - hw.avail + k]

\* channel_index after k more samples
ChannelAfter(k) ==
    IF info.channel_count = 0 THEN 0
    ELSE (info.channel_index + k) % info.channel_count

\* write_index += read_count; back to 0 at the end of the ring
NextWriteIndex(read_count) ==
    IF info.write_index + read_count >= info.buffer_size
    THEN 0 ELSE info.write_index + read_count

\* _a_in_read_scan_data into &scan_buffer[write_index], then the advance of
\* write_index.  r: the result of the AINSCANDATA transfer.
ThreadData(r) ==
    /\ thr.pc = "data"
    /\ UNCHANGED <<regVars, info_heap, app, result, app_cmds, xfVars>>
    /\ IF ~CheckAddr \/ r # "Success"
       THEN /\ IterationEnd(info, thr)
            /\ UNCHANGED <<scan_buffer, hw, hist>>
       ELSE LET n == thr.read_count
                ids == FifoIds(n)
                cells == [k \in 1 .. n |->
                            [id |-> ids[k], ch |-> ChannelAfter(k - 1)]]
            IN
            /\ scan_buffer' =
                 [i \in DOMAIN scan_buffer |->
                    IF i >= info.write_index /\ i < info.write_index + n
                    THEN cells[i - info.write_index + 1]
                    ELSE scan_buffer[i]]
            /\ info' = [info EXCEPT !.channel_index = ChannelAfter(n),
                                    !.write_index = NextWriteIndex(n)]
            /\ hw' = [hw EXCEPT !.avail = @ - n]
            /\ hist' = [hist EXCEPT
                          !.produced = @ \o cells,
                          !.clobbered = @ \/ (Len(hist.produced)
                                               - Len(hist.delivered) + n
                                                  > info.buffer_size)]
            /\ thr' = [thr EXCEPT !.pc = "depth_load"]

\* info->buffer_depth += read_count is a load ...
ThreadDepthLoad ==
    /\ thr.pc = "depth_load"
    /\ thr' = [thr EXCEPT !.pc = "depth_store", !.tmp = info.buffer_depth]
    /\ UNCHANGED <<regVars, sessVars, app, hw, result, app_cmds, hist, xfVars>>

\* ... and a store of the sum
ThreadDepthStore ==
    /\ thr.pc = "depth_store"
    /\ info' = [info EXCEPT !.buffer_depth = Add32(thr.tmp, thr.read_count)]
    /\ thr' = [thr EXCEPT !.pc = "after_data"]
    /\ hist' = [hist EXCEPT !.over = @ \/ info'.buffer_depth > info.buffer_size]
    /\ UNCHANGED <<regVars, info_heap, scan_buffer, app, hw, result, app_cmds, xfVars>>

\* the overrun test, samples_transferred, and the end of the iteration
ThreadAfterData ==
    /\ thr.pc = "after_data"
    /\ LET over == info.buffer_depth > info.buffer_size
           i1 == [info EXCEPT
                    !.buffer_overrun = @ \/ over,
                    !.scan_running = @ /\ ~over,
                    !.samples_transferred = Add32(@, thr.read_count)]
           t1 == [thr EXCEPT !.done = @ \/ over]
       IN IterationEnd(i1, t1)
    /\ UNCHANGED <<regVars, info_heap, scan_buffer, app, hw, result, app_cmds,
                   hist, xfVars>>

\* After the loop: a scan still marked running is stopped on the board
\* (r: the result of that transfer), then thread_running = false.
ThreadExit(r) ==
    /\ thr.pc = "exit"
    /\ hw' = IF info.scan_running /\ CheckAddr /\ r = "Success"
             THEN [hw EXCEPT !.running = FALSE] ELSE hw
    /\ info' = [info EXCEPT !.thread_running = FALSE]
    /\ thr' = [thr EXCEPT !.pc = "done"]
    /\ UNCHANGED <<regVars, info_heap, scan_buffer, app, result, app_cmds,
                   hist, xfVars>>

----------------------------------------------------------------------------
(* mcc172_a_in_scan_status and mcc172_a_in_scan_read                       *)

\* the status bits of the session's flags
FlagBits(i) ==
    (IF i.hw_overrun THEN {"HW_OVERRUN"} ELSE {})
    \cup (IF i.buffer_overrun THEN {"BUFFER_OVERRUN"} ELSE {})
    \cup (IF i.triggered THEN {"TRIGGERED"} ELSE {})
    \cup (IF i.scan_running THEN {"RUNNING"} ELSE {})

\* (the loop looks at buffer_overrun only)
ErrorBitsBufferOnly(i) == FlagBits(i) \cap {"BUFFER_OVERRUN"}
\* the flags that set error in the loop of scan_read
ErrorBits(i) == FlagBits(i) \cap {"HW_OVERRUN", "BUFFER_OVERRUN"}

\* mcc172_a_in_scan_status: the bits and buffer_depth / channel_count
ScanStatus ==
    /\ app.pc = "idle"
    /\ app_cmds' = <<>>
    /\ IF ~CheckAddr
       THEN result' = "BadParameter" /\ app' = Called("scan_status")
       ELSE IF ~dev.scan_info
       THEN result' = "ResourceUnavail" /\ app' = Called("scan_status")
       ELSE /\ result' = "Success"
            /\ app' = [IdleApp EXCEPT !.op = "scan_status", !.stat = FlagBits(info),
                          !.nread = info.buffer_depth \div info.channel_count]
    /\ UNCHANGED <<regVars, sessVars, thr, hw, hist, xfVars>>

\* a cell of the ring as memcpy reads it; past the end of the allocation it
\* reads what is not the ring's
Garbage == [id |-> -1, ch |-> 0]
Cell(i) == IF i \in DOMAIN scan_buffer THEN scan_buffer[i] ELSE Garbage

\* the samples_to_read of a call
ReadTarget(samples_per_channel, cap) ==
    LET want == IF samples_per_channel = -1 THEN info.buffer_depth
                ELSE samples_per_channel * info.channel_count
    IN IF cap < want THEN COUNT_NORMALIZE(cap, info.channel_count) ELSE want

\* The call up to its wait loop.  tmo: the timeout is negative ("neg"),
\* zero or positive ("pos"); cap: buffer_size_samples.
ScanReadBegin(samples_per_channel, tmo, cap) ==
    /\ app.pc = "idle"
    /\ app_cmds' = <<>>
    /\ UNCHANGED <<regVars, sessVars, thr, hw, hist, xfVars>>
    /\ IF ~CheckAddr \/ (samples_per_channel > 0 /\ cap = 0)
       THEN result' = "BadParameter" /\ app' = Called("scan_read")
       ELSE IF ~dev.scan_info
       THEN result' = "ResourceUnavail" /\ app' = Called("scan_read")
       ELSE LET target == ReadTarget(samples_per_channel, cap) IN
            IF target = 0
            THEN \* "just update status"
                 /\ result' = "Success"
                 /\ app' = [IdleApp EXCEPT !.op = "scan_read", !.tmo = tmo,
                               !.stat = FlagBits(info), !.cap = cap,
                               !.read_all = (samples_per_channel = -1)]
            ELSE /\ app' = [IdleApp EXCEPT !.pc = "rd_copy", !.op = "scan_read",
                               !.tmo = tmo, !.to_read = target,
                               !.target = target, !.cap = cap,
                               !.read_all = (samples_per_channel = -1)]
                 /\ UNCHANGED result

\* The copy of current_read samples to the caller, in two pieces when it
\* wraps, and the advance of read_index.
ReadCopy(current_read) ==
    LET max_read == info.buffer_size - info.read_index
        copied == IF max_read < current_read
                  THEN [k \in 1 .. current_read |->
                          IF k <= max_read
                          THEN Cell(info.read_index + k - 1)
                          ELSE Cell(k - max_read - 1)]
                  ELSE [k \in 1 .. current_read |->
                          Cell(info.read_index + k - 1)]
        ri == IF max_read < current_read THEN current_read - max_read
              ELSE IF info.read_index + current_read >= info.buffer_size
              THEN 0 ELSE info.read_index + current_read
    IN
    /\ info' = [info EXCEPT !.read_index = ri]
    /\ app' = [app EXCEPT !.pc = "rd_load", !.cur = current_read,
                          !.nread = @ + current_read,
                          !.to_read = Sub32(@, current_read)]
    /\ hist' = [hist EXCEPT !.delivered = @ \o copied]

\* One pass of the loop: when at least one scan is in the ring, copy
\* MIN(buffer_depth, samples_to_read) rounded down to whole scans.
\* MIN(a, b) is ((a < b) ? a : b): when buffer_depth is the smaller it is
\* read again for the value, in a step of its own (ScanReadMin).
ScanReadCopy ==
    /\ app.pc = "rd_copy"
    /\ UNCHANGED <<regVars, info_heap, scan_buffer, thr, hw, result, app_cmds, xfVars>>
    /\ IF info.buffer_depth >= info.channel_count
       THEN IF info.buffer_depth < app.to_read
            THEN /\ app' = [app EXCEPT !.pc = "rd_min"]
                 /\ UNCHANGED <<info, hist>>
            ELSE ReadCopy(COUNT_NORMALIZE(app.to_read, info.channel_count))
       ELSE /\ app' = [app EXCEPT !.pc = "rd_check"]
            /\ UNCHANGED <<info, hist>>

\* the second read of buffer_depth in MIN, and the copy of that many samples
ScanReadMin ==
    /\ app.pc = "rd_min"
    /\ UNCHANGED <<regVars, info_heap, scan_buffer, thr, hw, result, app_cmds, xfVars>>
    /\ ReadCopy(COUNT_NORMALIZE(info.buffer_depth, info.channel_count))

\* info->buffer_depth -= current_read is a load ...
ScanReadDepthLoad ==
    /\ app.pc = "rd_load"
    /\ app' = [app EXCEPT !.pc = "rd_store", !.tmp = info.buffer_depth]
    /\ UNCHANGED <<regVars, sessVars, thr, hw, result, app_cmds, hist, xfVars>>

\* ... and a store of the difference
ScanReadDepthStore ==
    /\ app.pc = "rd_store"
    /\ info' = [info EXCEPT !.buffer_depth = Sub32(app.tmp, app.cur)]
    /\ app' = [app EXCEPT !.pc = "rd_check", !.cur = 0, !.tmp = 0]
    /\ UNCHANGED <<regVars, info_heap, scan_buffer, thr, hw, result, app_cmds,
                   hist, xfVars>>

\* timed_out after a pass: never without a timeout; with one,
\* _difftime_us(...) >= timeout_us, which a timeout of 0 always meets
TimedOut(tmo, expired) ==
    CASE tmo = "neg" -> FALSE
      [] tmo = "zero" -> TRUE
      [] OTHER -> expired

\* The end of a pass: the deadline, the error flags and the loop condition.
\* expired: a positive timeout's deadline has passed.
ScanReadCheck(expired) ==
    /\ app.pc = "rd_check"
    /\ UNCHANGED <<regVars, sessVars, thr, hw, app_cmds, xfVars>>
    /\ hist' = [hist EXCEPT !.quiet = @ \/ (/\ app.to_read > 0
                                            /\ ErrorBits(info) = {}
                                            /\ ~info.thread_running
                                            /\ info.buffer_depth = 0)]
    /\ LET timed_out == TimedOut(app.tmo, expired)
           stat == app.stat \cup ErrorBits(info)
           again == /\ app.to_read > 0
                    /\ stat = {}
                    /\ (info.thread_running \/ info.buffer_depth > 0)
                    /\ ~timed_out
       IN IF again
          THEN /\ app' = [app EXCEPT !.pc = "rd_copy"]
               /\ UNCHANGED result
          ELSE /\ app' = [app EXCEPT !.pc = "idle", !.timed_out = timed_out,
                             !.stat = stat \cup (FlagBits(info)
                                         \cap {"TRIGGERED", "RUNNING"})]
               /\ result' = IF app.tmo = "pos" /\ timed_out /\ app.to_read > 0
                            THEN "Timeout" ELSE "Success"

----------------------------------------------------------------------------
(* _parse_buffer and _spi_transfer                                         *)

\* the parser before the first byte
ParseInit ==
    [parse_state |-> 0, found_frame |-> FALSE, frame_start |-> 0,
     frame_length |-> 0, remaining |-> 0, data_count |-> 0, data_index |-> 0]

\* (a parser of the 4-byte header: no status byte between command and count)
ParseStepNoStatus(st, byte, index) ==
    CASE st.parse_state = 0 ->
           IF byte = MSG_START
           THEN [st EXCEPT !.frame_start = index, !.data_count = 0,
                           !.data_index = 0, !.parse_state = 1]
           ELSE st
      [] st.parse_state = 1 -> [st EXCEPT !.parse_state = 3]
      [] st.parse_state = 3 -> [st EXCEPT !.data_count = byte, !.parse_state = 4]
      [] st.parse_state = 4 ->
           LET n == (st.data_count + byte * 256) % U16 IN
           IF n = 0
           THEN [st EXCEPT !.data_count = n, !.remaining = 0,
                           !.found_frame = TRUE,
                           !.frame_length = MSG_RX_HEADER_SIZE,
                           !.parse_state = 6]
           ELSE [st EXCEPT !.data_count = n, !.remaining = n, !.parse_state = 5]
      [] st.parse_state = 5 ->
           IF st.data_index + 1 >= st.data_count
           THEN [st EXCEPT !.remaining = (@ - 1) % U16, !.data_index = @ + 1,
                           !.parse_state = 6, !.found_frame = TRUE,
                           !.frame_length =
                               (st.data_count + MSG_RX_HEADER_SIZE) % U16]
           ELSE [st EXCEPT !.remaining = (@ - 1) % U16, !.data_index = @ + 1]
      [] OTHER -> st
\* one pass of the for loop of _parse_buffer: the byte at index
ParseStep(st, byte, index) ==
    CASE st.parse_state = 0 ->
           IF byte = MSG_START
           THEN [st EXCEPT !.frame_start = index, !.data_count = 0,
                           !.data_index = 0, !.parse_state = 1]
           ELSE st
      [] st.parse_state = 1 -> [st EXCEPT !.parse_state = 2]
      [] st.parse_state = 2 -> [st EXCEPT !.parse_state = 3]
      [] st.parse_state = 3 -> [st EXCEPT !.data_count = byte, !.parse_state = 4]
      [] st.parse_state = 4 ->
           LET n == (st.data_count + byte * 256) % U16 IN
           IF n = 0
           THEN [st EXCEPT !.data_count = n, !.remaining = 0,
                           !.found_frame = TRUE,
                           !.frame_length = MSG_RX_HEADER_SIZE,
                           !.parse_state = 6]
           ELSE [st EXCEPT !.data_count = n, !.remaining = n, !.parse_state = 5]
      [] st.parse_state = 5 ->
           IF st.data_index + 1 >= st.data_count
           THEN [st EXCEPT !.remaining = (@ - 1) % U16, !.data_index = @ + 1,
                           !.parse_state = 6, !.found_frame = TRUE,
                           !.frame_length =
                               (st.data_count + MSG_RX_HEADER_SIZE) % U16]
           ELSE [st EXCEPT !.remaining = (@ - 1) % U16, !.data_index = @ + 1]
      [] OTHER -> st

\* the for loop of _parse_buffer from index up to length, stopping at a found
\* frame; the range is walked in order, half by half
RECURSIVE ParseFrom(_, _, _, _)
ParseFrom(buffer, length, index, st) ==
    IF index >= length \/ st.found_frame THEN st
    ELSE IF index + 1 = length THEN ParseStep(st, buffer[index + 1], index)
    ELSE LET half == (index + length) \div 2
         IN ParseFrom(buffer, length, half, ParseFrom(buffer, half, index, st))

\* _parse_buffer over the first length bytes of buffer (buffer[i + 1] is the
\* byte at index i)
ParseBuffer(buffer, length) == ParseFrom(buffer, length, 0, ParseInit)

\* _create_frame: the bytes it puts in the buffer (none when count is above
\* MAX_TX_DATA_SIZE and it returns 0)
CreateFrame(command, count, data) ==
    IF count > MAX_TX_DATA_SIZE THEN <<>>
    ELSE <<MSG_START, command, count % 256, (count \div 256) % 256>>
         \o [k \in 1 .. count |-> data[k]]

\* A frame as it comes in: the layout of the MSG_RX_INDEX_ offsets, with the
\* status byte between the command and the count.
ReplyFrame(command, status, count, data) ==
    <<MSG_START, command, status, count % 256, (count \div 256) % 256>>
    \o [k \in 1 .. count |-> data[k]]

\* What _spi_transfer takes from a buffer in which _parse_buffer found a
\* frame: the command byte at frame_start + 1 and the bytes from
\* frame_start + 5 to the end of the frame.
FrameCommand(buffer, st) == buffer[st.frame_start + 2]
FramePayload(buffer, st) ==
    SubSeq(buffer, st.frame_start + MSG_RX_HEADER_SIZE + 1,
           st.frame_start + st.frame_length)

\* (the switch without its FW_RES_BUSY case)
FwResultNoBusy(status) ==
    CASE status = FW_RES_SUCCESS -> "Success"
      [] status = FW_RES_BAD_PARAMETER -> "BadParameter"
      [] status = FW_RES_TIMEOUT -> "Timeout"
      [] OTHER -> "Undefined"

\* the switch on the status byte of a frame whose command matches
FwResult(status) ==
    CASE status = FW_RES_SUCCESS -> "Success"
      [] status = FW_RES_BAD_PARAMETER -> "BadParameter"
      [] status = FW_RES_TIMEOUT -> "Timeout"
      [] status = FW_RES_BUSY -> "Busy"
      [] OTHER -> "Undefined"

\* _difftime_us(start, current) in a uint32_t
Difftime(start, current) == Sub32(current, start)

\* timeout = (diff > reply_timeout_us)
Expired(x) == Difftime(x.start_time, x.now) > x.reply_timeout

\* The frames a board can answer with: the command sent or another one,
\* every status up to FW_RES_OTHER_ERROR, up to MaxPayload payload bytes.
Frames ==
    [cmd : {CMD_AINSCANSTATUS, CMD_AINSCANDATA},
     status : 0 .. FW_RES_OTHER_ERROR,
     count : 0 .. MaxPayload]

\* the k-th payload byte the board sends
PayloadByte(k) == 100 + k

\* the bytes of a reply frame
FrameBytes(f) ==
    <<MSG_START, f.cmd, f.status, f.count % 256, f.count \div 256>>
    \o [k \in 1 .. f.count |-> PayloadByte(k)]

\* the first n bytes of bytes followed by fill
FirstBytes(bytes, n, fill) ==
    [k \in 1 .. n |-> IF k <= Len(bytes) THEN bytes[k] ELSE fill]

\* The call up to the ready-poll: the checks, the buffers, the lock and the
\* command.  start_time is declared and not assigned: it holds whatever the
\* stack held.
XferBegin(command, rx_data_count, reply_timeout, start_time, fail) ==
    /\ xf.pc = "none"
    /\ LET x == [xf EXCEPT !.command = command,
                           !.rx_data_count = rx_data_count,
                           !.reply_timeout = reply_timeout]
       IN
       IF ~CheckAddr
       THEN xf' = [x EXCEPT !.pc = "done", !.result = "BadParameter"]
       ELSE IF fail = "lock"
       THEN xf' = [x EXCEPT !.pc = "done", !.result = "LockTimeout"]
       ELSE IF fail = "ioctl"
       THEN xf' = [x EXCEPT !.pc = "done", !.result = "Undefined"]
       ELSE xf' = [x EXCEPT !.pc = "poll", !.start_time = start_time,
                            !.begin = xf.now,
                            !.rx_buffer =
                                [k \in 1 .. (MSG_RX_HEADER_SIZE
                                             + rx_data_count + 5) |-> 0]]
    /\ UNCHANGED <<regVars, sessVars, thr, app, hw, result, app_cmds, hist, lk, calc>>

\* the monotonic clock advances
XferTick ==
    /\ xf.now < MaxTime
    /\ xf' = [xf EXCEPT !.now = @ + 1]
    /\ UNCHANGED <<regVars, sessVars, thr, app, hw, result, app_cmds, hist, lk, calc>>

\* One pass of the ready-poll loop.  ok: the ioctl succeeds; byte: the byte
\* it reads.
XferPoll(ok, byte) ==
    /\ xf.pc = "poll"
    /\ LET got_reply == ok /\ byte # 0
           x == IF ok THEN [xf EXCEPT !.rx_buffer[1] = byte,
                                      !.ready = got_reply]
                ELSE xf
       IN
       IF got_reply THEN xf' = [x EXCEPT !.pc = "body"]
       ELSE IF Expired(x)
       THEN xf' = [x EXCEPT !.pc = "done", !.result = "Timeout"]
       ELSE xf' = x
    /\ UNCHANGED <<regVars, sessVars, thr, app, hw, result, app_cmds, hist, lk, calc>>

\* the result once a frame was found, and the copy to the caller
FrameResult(x, st) ==
    IF x.rx_buffer[st.frame_start + 2] = x.command
    THEN LET r == FwResult(x.rx_buffer[st.frame_start + 3])
             copy == r = "Success" /\ x.rx_data_count > 0
         IN [x EXCEPT !.pc = "done", !.result = r, !.copied = copy,
                      !.rx_data =
                          IF copy
                          THEN [k \in 1 .. x.rx_data_count |->
                                  LET i == st.frame_start + MSG_RX_HEADER_SIZE
                                           + k - 1
                                  IN \* past the allocation: not the buffer's
                                     IF i < Len(x.rx_buffer)
                                     THEN x.rx_buffer[i + 1] ELSE -1]
                          ELSE @]
    ELSE [x EXCEPT !.pc = "done", !.result = "BadParameter"]

\* One pass of the loop that reads the rest of the reply.  ok: the ioctl
\* succeeds; f: the frame the board sends, whose first byte was the ready
\* byte when that was MSG_START; fill: what it sends after the frame.
XferBody(ok, f, fill) ==
    /\ xf.pc = "body"
    /\ LET read_amount == xf.rx_data_count + MSG_RX_HEADER_SIZE
           sent == IF xf.rx_buffer[1] = MSG_START
                   THEN Tail(FrameBytes(f)) ELSE FrameBytes(f)
           body == FirstBytes(sent, read_amount, fill)
           x == IF ok
                THEN [xf EXCEPT !.frame = f,
                        !.rx_buffer =
                            [k \in 1 .. Len(xf.rx_buffer) |->
                               IF k >= 2 /\ k <= read_amount + 1
                               THEN body[k - 1] ELSE xf.rx_buffer[k]]]
                ELSE xf
           st == ParseBuffer(x.rx_buffer, read_amount + 1)
           got_reply == ok /\ st.found_frame
       IN
       IF got_reply
       THEN xf' = FrameResult([x EXCEPT !.found = TRUE,
                                        !.frame_start = st.frame_start], st)
       ELSE IF Expired(x)
       THEN xf' = [x EXCEPT !.pc = "done", !.result = "Timeout"]
       ELSE xf' = x
    /\ UNCHANGED <<regVars, sessVars, thr, app, hw, result, app_cmds, hist, lk, calc>>

\* the call has returned; the next one can begin
XferReturn ==
    /\ xf.pc = "done"
    /\ xf' = [NoXfer EXCEPT !.now = xf.now]
    /\ UNCHANGED <<regVars, sessVars, thr, app, hw, result, app_cmds, hist, lk, calc>>

----------------------------------------------------------------------------
(* The SPI lock: _spi_transfer, mcc172_enter_bootloader and                *)
(* mcc172_bl_transfer as the callers of one bus run them                   *)

\* calls each caller makes
MaxTxn == 2
\* SPI messages of one call the model follows
MaxIo == 2

\* _obtain_lock succeeds when no caller holds the lock (the contract of the
\* lock primitive: cross-process exclusion)
LockFree == \A c \in Callers : lk.held[c] = 0

\* one SPI message of c's call goes over the bus
BusMessage(l, c) ==
    [l EXCEPT !.io[c] = @ + 1,
              !.interleaved =
                  @ \/ \E o \in Callers \ {c} : l.pc[o] \in {"poll", "body"},
              !.misrouted = @ \/ (l.selected # AddressOf(c))]

\* (a return path that forgets the lock)
ReleaseLockForgotten(l, c) == l
\* _release_lock(lock_fd)
ReleaseLock(l, c) ==
    [l EXCEPT !.held[c] = IF @ > 0 THEN @ - 1 ELSE 0,
              !.unheld = @ \/ (l.held[c] = 0)]

\* the call of c returns r; the producer then sleeps before its next poll
Returned(l, c, r) ==
    [l EXCEPT !.res[c] = r, !.op[c] = "none",
              !.pc[c] = IF c = "thr" THEN "sleep" ELSE "idle"]

\* the calls that take the lock; the producer makes transfers only
LockedOps(c) ==
    IF c = "app" THEN {"transfer", "enter_bootloader", "bl_transfer"}
    ELSE {"transfer"}

\* (a caller that goes on without the lock)
HasLockUnchecked(lock_fd) == TRUE
\* if ((lock_fd = _obtain_lock()) < 0) return RESULT_LOCK_TIMEOUT;
HasLock(lock_fd) == lock_fd >= 0

\* A call begins, up to the return of _obtain_lock.  lock_fd: what it
\* returns, the lock (0) when no caller holds it, and -1 when another caller
\* held it for the 5 seconds it waits.
LkCall(c, op, lock_fd) ==
    /\ lk.pc[c] = "idle" /\ lk.txn[c] < MaxTxn
    /\ op \in LockedOps(c)
    /\ lock_fd >= 0 <=> LockFree
    /\ LET l == [lk EXCEPT !.txn[c] = @ + 1, !.io[c] = 0, !.res[c] = "None",
                           !.held[c] = IF lock_fd >= 0 THEN @ + 1 ELSE @]
       IN lk' = IF HasLock(lock_fd)
                THEN [l EXCEPT !.pc[c] = "locked", !.op[c] = op]
                ELSE Returned(l, c, "LockTimeout")
    /\ UNCHANGED <<regVars, sessVars, thr, app, hw, result, app_cmds, hist, xf, calc>>

\* _set_address(address), the statement after the lock
LkSetAddress(c) ==
    /\ lk.pc[c] = "locked"
    /\ lk' = [lk EXCEPT !.selected = AddressOf(c),
                        !.pc[c] = IF lk.op[c] = "enter_bootloader"
                                  THEN "reset" ELSE "mode"]
    /\ UNCHANGED <<regVars, sessVars, thr, app, hw, result, app_cmds, hist, xf, calc>>

\* "check spi mode and change if necessary".  ok: the ioctls succeed.
LkMode(c, ok) ==
    /\ lk.pc[c] = "mode"
    /\ lk' = IF ok
             THEN [lk EXCEPT !.pc[c] = IF lk.op[c] = "bl_transfer"
                                       THEN "xfer" ELSE "cmd"]
             ELSE Returned(ReleaseLock(lk, c), c, "Undefined")
    /\ UNCHANGED <<regVars, sessVars, thr, app, hw, result, app_cmds, hist, xf, calc>>

\* _spi_transfer: "send the command"
LkCommand(c, ok) ==
    /\ lk.pc[c] = "cmd"
    /\ lk' = IF ok
             THEN [BusMessage(lk, c) EXCEPT !.pc[c] = "poll"]
             ELSE Returned(ReleaseLock(lk, c), c, "Undefined")
    /\ UNCHANGED <<regVars, sessVars, thr, app, hw, result, app_cmds, hist, xf, calc>>

\* _spi_transfer: one pass of the ready-poll.  ready: the byte read is not
\* zero; expired: diff > reply_timeout_us.
LkPoll(c, ready, expired) ==
    /\ lk.pc[c] = "poll"
    /\ (ready \/ expired) \/ lk.io[c] < MaxIo
    /\ lk' = LET l == BusMessage(lk, c) IN
             IF ready THEN [l EXCEPT !.pc[c] = "body"]
             ELSE IF expired THEN Returned(ReleaseLock(l, c), c, "Timeout")
             ELSE l
    /\ UNCHANGED <<regVars, sessVars, thr, app, hw, result, app_cmds, hist, xf, calc>>

\* what _spi_transfer returns once a frame was found
FrameResults == {"Success", "BadParameter"}

\* _spi_transfer: one pass of the loop that reads the reply.  found: a
\* frame was parsed, and r is what it means.
LkBody(c, found, r, expired) ==
    /\ lk.pc[c] = "body"
    /\ (found \/ expired) \/ lk.io[c] < MaxIo
    /\ lk' = LET l == BusMessage(lk, c) IN
             IF found THEN Returned(ReleaseLock(l, c), c, r)
             ELSE IF expired THEN Returned(ReleaseLock(l, c), c, "Timeout")
             ELSE l
    /\ UNCHANGED <<regVars, sessVars, thr, app, hw, result, app_cmds, hist, xf, calc>>

\* mcc172_bl_transfer: its one SPI message.  ok: the ioctl succeeds.
LkBlTransfer(c, ok) ==
    /\ lk.pc[c] = "xfer"
    /\ lk' = IF ok
             THEN Returned(ReleaseLock(BusMessage(lk, c), c), c, "Success")
             ELSE Returned(ReleaseLock(lk, c), c, "Undefined")
    /\ UNCHANGED <<regVars, sessVars, thr, app, hw, result, app_cmds, hist, xf, calc>>

\* mcc172_enter_bootloader: the RESET pulses.  irq_low: IRQ went low.
LkReset(c, irq_low) ==
    /\ lk.pc[c] = "reset"
    /\ lk' = Returned(ReleaseLock(lk, c), c,
                      IF irq_low THEN "Success" ELSE "Timeout")
    /\ UNCHANGED <<regVars, sessVars, thr, app, hw, result, app_cmds, hist, xf, calc>>

\* the producer's usleep(sleep_us) between two iterations is over
LkWake(c) ==
    /\ lk.pc[c] = "sleep"
    /\ lk' = [lk EXCEPT !.pc[c] = "idle"]
    /\ UNCHANGED <<regVars, sessVars, thr, app, hw, result, app_cmds, hist, xf, calc>>

----------------------------------------------------------------------------
(* The computations of the driver, one at a time                           *)

\* samples_per_channel values around each buffer-size floor, the 16 Mi
\* bound, 2^31 and UINT32_MAX
SizeSamples ==
    {Of32(0), Of32(1), Of32(999), Of32(1000), Of32(1001), Of32(10000),
     Of32(10001), Of32(100000), Of32(100001),
     Of32(MAX_SCAN_BUFFER_SIZE_SAMPLES \div 2),
     Of32(MAX_SCAN_BUFFER_SIZE_SAMPLES \div 2 + 1),
     Of32(MAX_SCAN_BUFFER_SIZE_SAMPLES), Of32(MAX_SCAN_BUFFER_SIZE_SAMPLES + 1),
     [hi |-> U16 \div 2 - 1, lo |-> U16 - 1], [hi |-> U16 \div 2, lo |-> 0],
     [hi |-> U16 \div 2, lo |-> 1], [hi |-> U16 - 1, lo |-> U16 - 1]}

\* divisor bytes on both sides of the rates 1024 and 10240, and the fastest
SizeDivisors == {0, 3, 4, 5, 48, 49, 50, U16 \div 256 - 1}

\* scan_start from its parameter check to the allocation of the ring: the
\* buffer size it stores in the session.  b: the divisor byte the board
\* reports; allocated: calloc returned a buffer, so that the call goes on
\* to create the session's thread.
ScanStartSize(mask, samples_per_channel, options, b, allocated) ==
    /\ mask > 0 /\ mask < 2 ^ NUM_CHANNELS
    /\ samples_per_channel # Of32(0) \/ "CONTINUOUS" \in options
    /\ calc' = [fn |-> "buffer_size", mask |-> mask,
                samples_per_channel |-> samples_per_channel,
                options |-> options, b |-> b,
                buffer_size |-> BufferSize32(options, samples_per_channel,
                                             Len(ActiveChannels(mask)), b),
                session |-> allocated]
    /\ UNCHANGED progVars

----------------------------------------------------------------------------
(* The specifications                                                      *)

TypeResult == result \in Results \cup {"None"}

Thread ==
    \/ ThreadStart
    \/ ThreadLoopExit
    \/ \E r \in XferResults, m \in 1 .. MaxReadNow : ThreadStatus(r, m)
    \/ \E r \in XferResults : ThreadData(r)
    \/ ThreadDepthLoad
    \/ ThreadDepthStore
    \/ ThreadAfterData
    \/ \E r \in XferResults : ThreadExit(r)

Board == HwEmit(1) \/ HwTrigger \/ HwUntrigger \/ HwOverrun

\* What open() can find: an MCC 172 whose spidev opens, one whose spidev
\* does not, another product.
OpenEnvs ==
    {[hat |-> "mcc172", spi_ok |-> TRUE], [hat |-> "mcc172", spi_ok |-> FALSE],
     [hat |-> "other", spi_ok |-> TRUE]}

\* Before the first open.
Init ==
    /\ lib_initialized = FALSE
    /\ dev_ptr = FALSE
    /\ dev = NullDev
    /\ dev_heap = "none"
    /\ info = ZeroInfo
    /\ info_heap = "none"
    /\ scan_buffer = <<>>
    /\ thr = NoThread
    /\ app = IdleApp
    /\ hw = IdleHw
    /\ result = "None"
    /\ app_cmds = <<>>
    /\ hist = NoHist
    /\ xf = NoXfer
    /\ lk = NoLock
    /\ calc = NoCalc

Next ==
    \/ \E env \in OpenEnvs, replies \in [1 .. IdAttempts -> IdReplies] :
           Open(env.hat, env.spi_ok, replies)
    \/ Close
    \/ ScanCleanup
    \/ CleanupJoin
    \/ \E channel \in {0, NUM_CHANNELS} : CalWrite(channel, 3, 2)
    \/ \E r1 \in XferResults : IEPEWrite(0, 1, r1, "Success")
    \/ \E r \in XferResults : ClockWrite(1, r)
    \/ \E source \in {2, 3} : TriggerConfig(source, 3, "Success")
    \/ \E fail \in {"none", "start", "create"} :
           ScanStart(1, 2, {}, 0, fail, "Timeout")
    \/ ScanStart(0, 2, {}, 0, "none", "Timeout")
    \/ StartFlag
    \/ ScanStop("Success")
    \/ Thread
    \/ HwEmit(1)
    \/ HwOverrun

Spec == Init /\ [][Next]_vars

\* The registry with open_for_update, and a scan to hold a session.
NextUpdate ==
    \/ \E env \in OpenEnvs, replies \in [1 .. IdAttempts -> IdReplies] :
           Open(env.hat, env.spi_ok, replies)
    \/ \E env \in OpenEnvs, replies \in [1 .. IdAttempts -> IdReplies] :
           OpenForUpdate(env.hat, env.spi_ok, replies)
    \/ Close
    \/ CleanupJoin
    \/ ScanStart(1, 1, {}, 0, "none", "Timeout")
    \/ StartFlag
    \/ Thread
    \/ HwEmit(1)

SpecUpdate == Init /\ [][NextUpdate]_vars

\* A board opened once, with the factory defaults.
InitRing ==
    /\ lib_initialized = TRUE
    /\ dev_ptr = TRUE
    /\ dev = [NewDev(TRUE, SetDefaults) EXCEPT !.fw_version = 1]
    /\ dev_heap = "live"
    /\ info = ZeroInfo
    /\ info_heap = "none"
    /\ scan_buffer = <<>>
    /\ thr = NoThread
    /\ app = IdleApp
    /\ hw = IdleHw
    /\ result = "Success"
    /\ app_cmds = <<CMD_ID>>
    /\ hist = [NoHist EXCEPT !.opens = 1, !.opens_ok = 1]
    /\ xf = NoXfer
    /\ lk = NoLock
    /\ calc = NoCalc

NextRing ==
    \/ \E mask \in {1, 3}, spc \in 1 .. MaxSpc :
           ScanStart(mask, spc, IF mask = 3 THEN {"EXTTRIGGER"} ELSE {}, 0,
                     "none", "Timeout")
    \/ StartFlag
    \/ \E spc \in {-1, 1}, tmo \in {"zero", "pos"}, cap \in {1, 4} :
           ScanReadBegin(spc, tmo, cap)
    \/ \E spc \in 1 .. MaxSpc : ScanReadBegin(spc, "neg", 4)
    \/ ScanReadCopy
    \/ ScanReadMin
    \/ ScanReadDepthLoad
    \/ ScanReadDepthStore
    \/ \E expired \in BOOLEAN : ScanReadCheck(expired)
    \/ ScanStatus
    \/ ScanStop("Success")
    \/ ScanCleanup
    \/ CleanupJoin
    \/ Thread
    \/ Board

SpecRing == InitRing /\ [][NextRing]_vars

\* Finite scans read with every kind of timeout while the producer runs
\* and the board can overrun.
NextRead ==
    \/ \E mask \in {1, 3}, spc \in 1 .. MaxSpc :
          ScanStart(mask, spc, {}, 0, "none", "Timeout")
    \/ StartFlag
    \/ \E tmo \in {"neg", "zero", "pos"} : ScanReadBegin(MaxSpc, tmo, 4)
    \/ ScanReadCopy
    \/ ScanReadMin
    \/ ScanReadDepthLoad
    \/ ScanReadDepthStore
    \/ \E expired \in BOOLEAN : ScanReadCheck(expired)
    \/ ScanStatus
    \/ ScanCleanup
    \/ CleanupJoin
    \/ Thread
    \/ HwEmit(1)
    \/ HwOverrun

SpecRead == InitRing /\ [][NextRead]_vars

\* Scans that wait for the external trigger, polled and read while the
\* trigger is awaited, arrives and is withdrawn.
NextTrig ==
    \/ \E mask \in {1, 3}, spc \in 1 .. MaxSpc :
           ScanStart(mask, spc, {"EXTTRIGGER"}, 0, "none", "Timeout")
    \/ StartFlag
    \/ \E tmo \in {"zero", "pos"} : ScanReadBegin(1, tmo, 4)
    \/ ScanReadCopy
    \/ ScanReadDepthLoad
    \/ ScanReadDepthStore
    \/ \E expired \in BOOLEAN : ScanReadCheck(expired)
    \/ ScanStatus
    \/ ScanCleanup
    \/ CleanupJoin
    \/ Thread
    \/ Board

SpecTrig == InitRing /\ [][NextTrig]_vars

\* One finite scan whose transfers all succeed, with a consumer that reads
\* and asks for the status as it likes and never stops the scan.  The
\* producer thread is scheduled fairly and the board goes on acquiring
\* until it has all the samples of the scan.
ProducerStep ==
    \/ ThreadStart
    \/ ThreadLoopExit
    \/ \E m \in 1 .. MaxReadNow : ThreadStatus("Success", m)
    \/ ThreadData("Success")
    \/ ThreadDepthLoad
    \/ ThreadDepthStore
    \/ ThreadAfterData
    \/ ThreadExit("Success")

NextFinite ==
    \/ \E mask \in {1, 3}, spc \in 1 .. MaxSpc :
           ScanStart(mask, spc, {}, 0, "none", "Timeout")
    \/ StartFlag
    \/ \E spc \in {-1, 1} : ScanReadBegin(spc, "zero", 4)
    \/ ScanReadCopy
    \/ ScanReadDepthLoad
    \/ ScanReadDepthStore
    \/ ScanReadCheck(FALSE)
    \/ ScanStatus
    \/ ProducerStep
    \/ HwEmit(1)

SpecFinite ==
    /\ InitRing /\ [][NextFinite]_vars
    /\ WF_vars(ProducerStep)
    /\ WF_vars(HwEmit(1))

\* Finite scans of more samples than a scan_read asks for, read while the
\* producer fills the ring.
NextPartial ==
    \/ \E mask \in {1, 3} :
           ScanStart(mask, MaxSpc + 1, {}, 0, "none", "Timeout")
    \/ StartFlag
    \/ \E tmo \in {"neg", "zero"}, cap \in {MaxSpc, 2 * MaxSpc} :
           ScanReadBegin(MaxSpc, tmo, cap)
    \/ ScanReadCopy
    \/ ScanReadMin
    \/ ScanReadDepthLoad
    \/ ScanReadDepthStore
    \/ ScanReadCheck(FALSE)
    \/ ProducerStep
    \/ HwEmit(1)

SpecPartial == InitRing /\ [][NextPartial]_vars

\* Scans ended by scan_cleanup at any point, under a producer that is
\* scheduled and a pthread_join that returns once the producer has ended.
NextCleanup ==
    \/ \E spc \in 1 .. MaxSpc, options \in {{}, {"EXTTRIGGER"}} :
           ScanStart(1, spc, options, 0, "none", "Timeout")
    \/ StartFlag
    \/ ScanCleanup
    \/ CleanupJoin
    \/ ScanStatus
    \/ Thread
    \/ HwEmit(1)
    \/ HwTrigger

SpecCleanup ==
    /\ InitRing /\ [][NextCleanup]_vars
    /\ WF_vars(Thread)
    /\ WF_vars(CleanupJoin)

\* Finite scans stopped by scan_stop at any point.
NextStop ==
    \/ \E mask \in {1, 3}, spc \in 1 .. MaxSpc :
           ScanStart(mask, spc, {}, 0, "none", "Timeout")
    \/ StartFlag
    \/ \E r \in XferResults : ScanStop(r)
    \/ ScanStatus
    \/ Thread
    \/ HwEmit(1)

SpecStop == InitRing /\ [][NextStop]_vars

\* scan_start failing at each of its steps or succeeding, between
\* configuration calls, status queries and cleanups.
NextStart ==
    \/ \E mask \in {1, 3}, fail \in StartFails, err \in {"Timeout", "LockTimeout"} :
           ScanStart(mask, 2, {}, 0, fail, err)
    \/ StartFlag
    \/ ScanStatus
    \/ \E channel \in Channels : CalWrite(channel, 3, 2)
    \/ \E r1 \in XferResults : IEPEWrite(0, 1, r1, "Success")
    \/ \E r \in XferResults : ClockWrite(1, r)
    \/ TriggerConfig(2, 3, "Success")
    \/ ScanCleanup
    \/ CleanupJoin
    \/ Thread
    \/ HwEmit(1)

SpecStart == InitRing /\ [][NextStart]_vars

\* A continuous scan at 1024 samples per second (divisor byte 49) of one
\* channel: the ring holds 1000 samples.  The board is seen each time it has
\* acquired ContChunk more samples and reports all of them as readable.
ContChunk == 500
ContDivisor == 49

NextCont ==
    \/ ScanStart(1, 0, {"CONTINUOUS"}, ContDivisor, "none", "Timeout")
    \/ StartFlag
    \/ HwEmit(ContChunk)
    \/ ThreadStart
    \/ ThreadLoopExit
    \/ ThreadStatus("Success", MAX_SAMPLES_READ)
    \/ ThreadData("Success")
    \/ ThreadDepthLoad
    \/ ThreadDepthStore
    \/ ThreadAfterData
    \/ ThreadExit("Success")
    \/ \E cap \in {ContChunk, 2 * ContChunk, 3 * ContChunk} :
           ScanReadBegin(-1, "zero", cap)
    \/ ScanReadCopy
    \/ ScanReadDepthLoad
    \/ ScanReadDepthStore
    \/ ScanReadCheck(FALSE)
    \/ ScanStatus
    \/ ScanCleanup
    \/ CleanupJoin

SpecCont == InitRing /\ [][NextCont]_vars

\* Transfers of a status or a data command to the open board, one after
\* the other, as the clock advances.
NextXfer ==
    \/ \E rx_data_count \in 0 .. MaxRxCount, reply_timeout \in 1 .. 2,
          start_time \in {0, MaxTime} :
            XferBegin(CMD_AINSCANSTATUS, rx_data_count, reply_timeout,
                      start_time, "none")
    \/ \E fail \in {"lock", "ioctl"} :
            XferBegin(CMD_AINSCANSTATUS, 0, 1, 0, fail)
    \/ XferTick
    \/ \E byte \in {0, 1, MSG_START} : XferPoll(TRUE, byte)
    \/ XferPoll(FALSE, 0)
    \/ \E f \in Frames : XferBody(TRUE, f, 255)
    \/ XferBody(FALSE, NoFrame, 0)
    \/ XferReturn

SpecXfer == InitRing /\ [][NextXfer]_vars

\* The producer thread, the application thread and another process use
\* the bus of the open board at the same time.
NextLock ==
    \/ \E c \in Callers : \E op \in LockedOps(c) : LkCall(c, op, 0)
    \/ \E c \in Callers : LkCall(c, "transfer", -1)
    \/ \E c \in Callers : LkSetAddress(c)
    \/ \E c \in Callers, ok \in BOOLEAN : LkMode(c, ok)
    \/ \E c \in Callers, ok \in BOOLEAN : LkCommand(c, ok)
    \/ \E c \in Callers, ready \in BOOLEAN, expired \in BOOLEAN :
           LkPoll(c, ready, expired)
    \/ \E c \in Callers, r \in FrameResults : LkBody(c, TRUE, r, FALSE)
    \/ \E c \in Callers, expired \in BOOLEAN : LkBody(c, FALSE, "None", expired)
    \/ \E c \in Callers, ok \in BOOLEAN : LkBlTransfer(c, ok)
    \/ \E c \in Callers, irq_low \in BOOLEAN : LkReset(c, irq_low)
    \/ \E c \in Callers : LkWake(c)

SpecLock == InitRing /\ [][NextLock]_vars

\* mcc172_enter_bootloader, statement by statement.  calc holds the call:
\* pc, count, the IRQ and RESET lines, whether the SPI lock is held, the
\* RESET pulses given, the milliseconds slept in the second loop, the value
\* returned, and irq_entry: the level of IRQ at the first test of the call.
\* The call up to _set_address.  lock_fd: what _obtain_lock returns; irq: the
\* level of the IRQ line at entry.
EnterBootloader(lock_fd, irq) ==
    /\ calc.fn = "boot" => calc.pc = "done"
    /\ calc' = IF ~CheckAddr
               THEN [fn |-> "boot", pc |-> "done", count |-> 0, irq |-> irq,
                     irq_entry |-> TRUE, reset |-> FALSE, lock |-> FALSE,
                     pulses |-> 0, waited |-> 0, res |-> "BadParameter"]
               ELSE IF ~HasLock(lock_fd)
               THEN [fn |-> "boot", pc |-> "done", count |-> 0, irq |-> irq,
                     irq_entry |-> TRUE, reset |-> FALSE, lock |-> FALSE,
                     pulses |-> 0, waited |-> 0, res |-> "LockTimeout"]
               ELSE [fn |-> "boot", pc |-> "toggle", count |-> 0, irq |-> irq,
                     irq_entry |-> TRUE, reset |-> FALSE, lock |-> TRUE,
                     pulses |-> 0, waited |-> 0, res |-> "None"]
    /\ UNCHANGED progVars

\* one statement of the call
BootloaderStep ==
    /\ calc.fn = "boot"
    /\ calc.pc # "done"
    /\ calc' =
         CASE calc.pc = "toggle" ->
                \* while (gpio_status(IRQ_GPIO) && (count <= 10))
                LET c == [calc EXCEPT !.irq_entry =
                                          IF calc.count = 0 THEN calc.irq ELSE @]
                IN IF calc.irq /\ calc.count <= 10
                   THEN [c EXCEPT !.pc = "reset_high"]
                   ELSE [c EXCEPT !.pc = "not_low"]
           [] calc.pc = "reset_high" ->
                \* usleep(10*1000); gpio_write(RESET_GPIO, 1);
                [calc EXCEPT !.reset = TRUE, !.pc = "reset_low"]
           [] calc.pc = "reset_low" ->
                \* usleep(1*1000); gpio_write(RESET_GPIO, 0); count++;
                [calc EXCEPT !.reset = FALSE, !.pulses = @ + 1,
                             !.count = @ + 1, !.pc = "toggle"]
           [] calc.pc = "not_low" ->
                \* if (gpio_status(IRQ_GPIO)) { count = 0; ...
                IF calc.irq
                THEN [calc EXCEPT !.count = 0, !.pc = "wait"]
                ELSE [calc EXCEPT !.lock = FALSE, !.res = "Success",
                                  !.pc = "done"]
           [] calc.pc = "wait" ->
                \* while (gpio_status(IRQ_GPIO) && (count < 110))
                IF calc.irq /\ calc.count < 110
                THEN [calc EXCEPT !.pc = "wait_sleep"]
                ELSE [calc EXCEPT !.pc = "still_high"]
           [] calc.pc = "wait_sleep" ->
                \* usleep(1*1000); count += 10;
                [calc EXCEPT !.waited = @ + 1, !.count = @ + 10, !.pc = "wait"]
           [] calc.pc = "still_high" ->
                \* if (gpio_status(IRQ_GPIO)) ... return RESULT_TIMEOUT;
                [calc EXCEPT !.lock = FALSE, !.pc = "done",
                             !.res = IF calc.irq THEN "Timeout" ELSE "Success"]
    /\ UNCHANGED progVars

\* the board becomes ready for commands during the call: IRQ goes low
BootloaderIrq ==
    /\ calc.fn = "boot"
    /\ calc.pc # "done"
    /\ calc.irq
    /\ calc' = [calc EXCEPT !.irq = FALSE]
    /\ UNCHANGED progVars

\* A sample rate is the fraction num / den of two integers, den > 0.
\* mcc172_a_in_clock_config_write: the byte it sends in buffer[1].
\* divisor = MAX_SAMPLE_RATE / rate + 0.5 is (2 * MAX_SAMPLE_RATE * den + num)
\* / (2 * num); a rate of 0 makes it infinite, above 256, and a negative rate
\* makes it less than 0.5; the conversion to uint8_t drops the fraction.
\* (the divisor without the 0.5 added)
ClockDivisorByteTruncated(num, den) ==
    IF num = 0 THEN 255
    ELSE IF num < 0 THEN 0
    ELSE LET twice == 2 * MAX_SAMPLE_RATE * den
         IN IF twice < 2 * num THEN 0
            ELSE IF twice > 512 * num THEN 255
            ELSE twice \div (2 * num) - 1
ClockDivisorByte(num, den) ==
    IF num = 0 THEN 255
    ELSE IF num < 0 THEN 0
    ELSE LET twice == 2 * MAX_SAMPLE_RATE * den + num
         IN IF twice < 2 * num THEN 0
            ELSE IF twice > 512 * num THEN 255
            ELSE twice \div (2 * num) - 1

\* mcc172_a_in_clock_config_read: the rate it reports for the divisor byte
\* buffer[1] = b, as a fraction
ClockRateRead(b) == [num |-> MAX_SAMPLE_RATE, den |-> b + 1]

\* rates around the ends of the divisor range and around the halves
ClockRateNums ==
    {-1, 0, 1, 100, 199, 200, 201, 400, 1000, 10240, 20480, 25600, 34133,
     34134, 51199, 51200, 51201, 102399, 102400, 102401, 204800, 1000000}
ClockRateDens == {1, 2, 3, 5, 511, 513}

\* clock_config_write(rate) against a board that keeps the byte, then
\* clock_config_read
ClockConfig(num, den) ==
    /\ calc' = LET b == ClockDivisorByte(num, den)
               IN [fn |-> "clock", num |-> num, den |-> den, sent |-> b,
                   read |-> ClockRateRead(b)]
    /\ UNCHANGED progVars

\* _a_in_read_scan_data: the 32-bit word built from the three bytes of a
\* sample, 0xFF000000 or'ed in when bit 7 of the first byte is set
\* (the word without the 0xFF000000)
SampleWordUnsigned(b0, b1, b2) == [hi |-> b0, lo |-> b1 * 256 + b2]
SampleWord(b0, b1, b2) ==
    [hi |-> (IF BitSet(b0, 7) THEN 65280 ELSE 0) + b0, lo |-> b1 * 256 + b2]

\* the int32_t a 32-bit word is stored as (two's complement)
AsInt32(a) == IF a.hi >= U16 \div 2 THEN (a.hi - U16) * U16 + a.lo ELSE Int32(a)

\* value in _a_in_read_scan_data, before scaling and calibration
SampleValue(b0, b1, b2) == AsInt32(SampleWord(b0, b1, b2))

\* bytes around the sign bit and the ends of the byte range
SampleBytes == {0, 1, 85, 127, 128, 255}

\* the conversion of one sample of a reply
ConvertSample(b0, b1, b2) ==
    /\ calc' = [fn |-> "sample", b0 |-> b0, b1 |-> b1, b2 |-> b2,
                value |-> SampleValue(b0, b1, b2)]
    /\ UNCHANGED progVars

\* command bytes, payload sizes, payload contents and trailing bytes
FrameCommands == {CMD_AINSCANDATA, MSG_START}
FrameCounts == {0, 1, MaxPayload, MAX_TX_DATA_SIZE - 1, MAX_TX_DATA_SIZE}
FrameFills == {0, MSG_START, -1}
FrameNoise == {<<>>, <<0>>, <<1>>, <<MSG_START, 0, 0, 0, 0>>}
\* the k-th payload byte: the fill byte, or k modulo 256 for the fill -1
FillByte(fill, k) == IF fill = -1 THEN k % 256 ELSE fill

\* _parse_buffer over the frame _create_frame builds, followed by noise
ScanOutbound(command, payload, noise) ==
    /\ calc' = LET stream == CreateFrame(command, Len(payload), payload) \o noise
               IN [fn |-> "outbound", command |-> command, payload |-> payload,
                   stream |-> stream,
                   scan |-> ParseBuffer(stream, Len(stream))]
    /\ UNCHANGED progVars

\* _parse_buffer over a frame in the inbound layout, followed by noise
ScanInbound(command, status, payload, noise) ==
    /\ calc' = LET stream == ReplyFrame(command, status, Len(payload), payload)
                             \o noise
               IN [fn |-> "inbound", command |-> command, payload |-> payload,
                   stream |-> stream,
                   scan |-> ParseBuffer(stream, Len(stream))]
    /\ UNCHANGED progVars

\* The scanner applied to frames as they go out and as they come in,
\* followed by other bytes.
NextFrame ==
    \/ \E command \in FrameCommands, count \in FrameCounts,
          fill \in FrameFills, noise \in FrameNoise :
            ScanOutbound(command, [k \in 1 .. count |-> FillByte(fill, k)], noise)
    \/ \E command \in FrameCommands, status \in {0, MSG_START},
          count \in FrameCounts, fill \in FrameFills, noise \in FrameNoise :
            ScanInbound(command, status,
                        [k \in 1 .. count |-> FillByte(fill, k)], noise)

SpecFrame == InitRing /\ [][NextFrame]_vars

\* Calls of enter_bootloader against a board that becomes ready or not.
NextBoot ==
    \/ \E lock_fd \in {-1, 0}, irq \in BOOLEAN : EnterBootloader(lock_fd, irq)
    \/ BootloaderStep
    \/ BootloaderIrq

SpecBoot == InitRing /\ [][NextBoot]_vars

\* The clock configuration written and read back.
NextClock ==
    \E num \in ClockRateNums, den \in ClockRateDens : ClockConfig(num, den)

SpecClock == InitRing /\ [][NextClock]_vars

\* The samples of a reply converted.
NextSample ==
    \E b0 \in SampleBytes, b1 \in SampleBytes, b2 \in SampleBytes :
        ConvertSample(b0, b1, b2)

SpecSample == InitRing /\ [][NextSample]_vars

\* The computations applied to operands chosen around their corner cases.
NextCalc ==
    \/ \E mask \in 1 .. 3, samples_per_channel \in SizeSamples,
          options \in {{}, {"CONTINUOUS"}}, b \in SizeDivisors,
          allocated \in BOOLEAN :
            ScanStartSize(mask, samples_per_channel, options, b, allocated)

SpecCalc == InitRing /\ [][NextCalc]_vars

----------------------------------------------------------------------------
(* The ring buffer                                                         *)

IsPrefix(s, t) == Len(s) <= Len(t) /\ \A k \in 1 .. Len(s) : s[k] = t[k]

\* C1: in a scan whose buffer_depth never exceeded buffer_size, the samples
\* scan_read has returned so far are the samples the producer enqueued, in
\* the producer's order, none duplicated, lost or reordered.
RingDeliversProduced ==
    ~hist.over => IsPrefix(hist.delivered, hist.produced)

\* C27: the i-th sample scan_read has delivered in a session (counting from
\* 0) is the i-th sample the board emitted, and it was converted with
\* channel_index i mod channel_count.
ChannelRoundRobin ==
    dev.scan_info =>
      \A i \in 1 .. Len(hist.delivered) :
         /\ hist.delivered[i].id = i
         /\ hist.delivered[i].ch = (i - 1) % info.channel_count

\* C33: while a session exists, write_index and read_index are multiples of
\* channel_count.
IndicesWholeGroups ==
    info_heap = "live" /\ info.channel_count > 0 =>
        /\ info.write_index % info.channel_count = 0
        /\ info.read_index % info.channel_count = 0

\* C34: a read the producer issues is of 0 < read_count <=
\* min(available_samples, max_read_now, MAX_SAMPLES_READ) samples and ends at
\* or before the end of the ring; both indices stay below buffer_size, and
\* no cell outside the ring is copied to the caller.
ReadsStayInRing ==
    /\ [](thr.pc = "data" =>
            /\ 0 < thr.read_count
            /\ thr.read_count <= Min(thr.available_samples, MAX_SAMPLES_READ)
            /\ info.write_index + thr.read_count <= info.buffer_size)
    /\ [][\A m \in (1 .. MaxReadNow) \cup {MAX_SAMPLES_READ} :
            ThreadStatus("Success", m) /\ thr'.pc = "data"
                => thr'.read_count <= m]_vars
    /\ [](info_heap = "live" =>
            /\ info.write_index < info.buffer_size
            /\ info.read_index < info.buffer_size)
    /\ [](\A k \in 1 .. Len(hist.delivered) : hist.delivered[k] # Garbage)

\* C35: a data read that fails leaves write_index, buffer_depth,
\* samples_transferred and channel_index as they were, and the iteration in
\* which it failed neither ends the producer nor clears scan_running.
DataFailureKeepsScan ==
    [][ThreadData("Timeout") =>
         /\ info'.write_index = info.write_index
         /\ info'.buffer_depth = info.buffer_depth
         /\ info'.samples_transferred = info.samples_transferred
         /\ info'.channel_index = info.channel_index
         /\ ~thr'.done
         /\ info'.scan_running = info.scan_running]_vars

\* C2: while a session exists, buffer_depth is at most buffer_size in every
\* state, whatever the producer is doing.
DepthWithinBuffer ==
    dev.scan_info => info.buffer_depth <= info.buffer_size

\* C23: the buffer size scan_start stores is the arithmetic product of the
\* channel count and, in a finite scan, samples_per_channel, in a continuous
\* scan the larger of samples_per_channel and the floor of the rate (1000
\* up to 1024 S/s, 10000 up to 10240 S/s, 100000 above): the product's
\* carry out of 32 bits is 0 and its 32 bits are buffer_size.
BufferSizeIsProduct ==
    calc.fn = "buffer_size" =>
      LET n == Len(ActiveChannels(calc.mask))
          floor == IF RateLE(calc.b, 1024) THEN Of32(1000)
                   ELSE IF RateLE(calc.b, 10240) THEN Of32(10000)
                   ELSE Of32(100000)
          per == IF "CONTINUOUS" \in calc.options
                    /\ Lt32(calc.samples_per_channel, floor)
                 THEN floor ELSE calc.samples_per_channel
          l == per.lo * n
          h == per.hi * n + l \div U16
      IN /\ h \div U16 = 0
         /\ calc.buffer_size = [hi |-> h % U16, lo |-> l % U16]

\* C24: a scan_start that got its ring buffer, and so goes on to create the
\* session's thread, has a buffer size of at most 16 Mi samples.
BufferSizeBounded ==
    (calc.fn = "buffer_size" /\ calc.session)
      => ~Lt32(Of32(MAX_SCAN_BUFFER_SIZE_SAMPLES), calc.buffer_size)

----------------------------------------------------------------------------
(* scan_read and the producer's flags                                      *)

\* C13: a scan_read with a negative timeout and a positive target returns
\* only when its target is met, an overrun was observed, or the producer has
\* returned and the ring is drained.
WaitsForTarget ==
    [][(app.pc = "rd_check" /\ app'.pc = "idle" /\ app.tmo = "neg")
         => \/ app'.to_read = 0
            \/ ErrorBits(info) # {}
            \/ (thr.pc = "done" /\ info.buffer_depth = 0)]_vars

\* C14: once a scan_read has seen thread_running false with buffer_depth 0,
\* buffer_depth of that session stays 0.
QuietStaysQuiet ==
    (dev.scan_info /\ hist.quiet) => info.buffer_depth = 0

\* C15: thread_running becomes false only with scan_running false, and
\* scan_running is false whenever the producer of the session has returned.
StoppedBeforeThreadEnds ==
    /\ [][(info.thread_running /\ ~info'.thread_running /\ info_heap' = "live")
            => ~info'.scan_running]_vars
    /\ []((dev.scan_info /\ thr.pc = "done") => ~info.scan_running)

\* C16: within a session triggered becomes true only in a status poll that
\* reports the board's triggered bit, and once true it stays true.
TriggeredMonotone ==
    [][(info_heap = "live" /\ info_heap' = "live")
         => /\ (info.triggered => info'.triggered)
            /\ (~info.triggered /\ info'.triggered)
                  => (hw.triggered /\ thr.pc = "loop")]_vars

\* a scan_status or scan_read of the session returns in this step
StatusReported ==
    /\ dev.scan_info
    /\ app' # app /\ app'.pc = "idle" /\ app'.op \in {"scan_status", "scan_read"}
    /\ result' \in {"Success", "Timeout"}

\* C17: no unread sample is overwritten before buffer_overrun is set; with
\* buffer_overrun set scan_running is false and the producer reads no more
\* data and ends; once the producer has gone past its test a buffer_depth
\* above buffer_size has set the flag; a later scan_status or scan_read
\* reports BUFFER_OVERRUN and not RUNNING.
BufferOverrunStops ==
    /\ [](hist.clobbered => info.buffer_overrun)
    /\ [](info.buffer_overrun =>
            /\ ~info.scan_running
            /\ thr.pc \in {"loop", "exit", "done"}
            /\ thr.pc = "loop" => thr.done)
    /\ []((/\ dev.scan_info
           /\ info.buffer_depth > info.buffer_size
           /\ thr.pc \in {"loop", "exit", "done"}) => info.buffer_overrun)
    /\ [][(info.buffer_overrun /\ StatusReported)
            => /\ "BUFFER_OVERRUN" \in app'.stat
               /\ "RUNNING" \notin app'.stat]_vars

TimedReadStep == app.op = "scan_read" /\ app.tmo = "pos" /\ app' # app

\* C19: in a scan_read with a positive timeout, each pass reports what it
\* copied and takes it out of the ring (read_index and buffer_depth advance
\* by the amount copied); the check that finds the deadline expired with
\* the target unmet ends the call with Timeout and the current status bits;
\* no step of the call touches the registry, stop_thread or the producer.
TimeoutKeepsPartial ==
    /\ [][(TimedReadStep /\ app.pc = "rd_copy")
            => /\ app'.nread = app.nread + app'.cur
               /\ Len(hist'.delivered) = Len(hist.delivered) + app'.cur
               /\ info'.read_index =
                    (info.read_index + app'.cur) % info.buffer_size]_vars
    /\ [][(TimedReadStep /\ app.pc = "rd_store")
            => info'.buffer_depth = info.buffer_depth - app.cur]_vars
    /\ [][(TimedReadStep /\ app.pc = "rd_check" /\ app.to_read > 0
             /\ ScanReadCheck(TRUE))
            => /\ app'.pc = "idle" /\ result' = "Timeout"
               /\ app'.nread = app.nread
               /\ app'.stat = FlagBits(info)]_vars
    /\ [][(TimedReadStep /\ app.pc # "idle")
            => /\ dev' = dev /\ info_heap' = info_heap /\ thr' = thr
               /\ info'.stop_thread = info.stop_thread]_vars

\* C20: with a timeout of 0 scan_read makes one pass: the pass copies a
\* whole number of channel groups, no more than the depth and no more than
\* what is still asked for; the check after it ends the call; the call
\* returns Success, never Timeout, however little it copied.
ZeroTimeoutOnePass ==
    /\ [][(app.pc \in {"rd_copy", "rd_min"} /\ app.tmo = "zero" /\ app' # app)
            => /\ app'.pc \in {"rd_min", "rd_load", "rd_check"}
               /\ app'.cur <= info.buffer_depth
               /\ app'.cur <= app.to_read
               /\ app'.cur % info.channel_count = 0
               /\ Len(hist'.delivered) = Len(hist.delivered) + app'.cur]_vars
    /\ [][(app.pc = "rd_check" /\ app.tmo = "zero" /\ app' # app)
            => (app'.pc = "idle" /\ result' = "Success")]_vars
    /\ []((app.pc = "idle" /\ app.op = "scan_read" /\ app.tmo = "zero")
            => result = "Success")

\* the producer is about to send AINSCANDATA or is accounting for its reply
ReadingData == thr.pc \in {"data", "depth_load", "depth_store", "after_data"}

\* C25: scan_start with OPTS_EXTTRIGGER leaves the board armed and not
\* triggered; while no status reply of the session has had the triggered
\* bit set, triggered is false, the producer sends no AINSCANDATA, and
\* buffer_depth and samples_transferred are 0 and nothing was enqueued or
\* delivered; a reply with the bit set and samples the producer may read
\* takes the producer to its data read.
WaitsForTrigger ==
    /\ [][(app.pc = "idle" /\ app'.pc = "start_flag"
             /\ "EXTTRIGGER" \in info'.options)
            => (hw'.running /\ ~hw'.triggered)]_vars
    /\ []((dev.scan_info /\ "EXTTRIGGER" \in info.options /\ ~hist.trig_reply)
            => /\ ~info.triggered /\ ~ReadingData
               /\ info.buffer_depth = 0 /\ info.samples_transferred = 0
               /\ hist.produced = <<>> /\ hist.delivered = <<>>)
    /\ [][((\E m \in 1 .. MaxReadNow : ThreadStatus("Success", m))
             /\ CheckAddr /\ "EXTTRIGGER" \in info.options
             /\ hw.triggered /\ ~hw.overrun /\ ~hw.running /\ hw.avail > 0)
            => (info'.triggered /\ thr'.pc = "data")]_vars

\* scan_read returned samples of a scan that had waited for its trigger
TriggeredSamplesRead ==
    /\ dev.scan_info /\ "EXTTRIGGER" \in info.options
    /\ app.pc = "idle" /\ app.op = "scan_read" /\ app.nread > 0
    /\ "TRIGGERED" \in app.stat

\* C26: in a finite scan with transfers that succeed the producer
\* eventually has enqueued every sample of the scan, no more, and has
\* terminated; the step that ends its loop clears scan_running;
\* buffer_overrun is never set; and from some point on the session's
\* scan_running stays false, so that the status no longer shows RUNNING.
FiniteScanCompletes ==
    /\ dev.scan_info ~> (/\ thr.pc = "done"
                         /\ Len(hist.produced) = hw.limit
                         /\ info.samples_transferred = hw.limit)
    /\ [](dev.scan_info =>
            (~info.buffer_overrun /\ Len(hist.produced) <= hw.limit))
    /\ [][(~thr.done /\ thr'.done)
            => (~info'.scan_running /\ Len(hist'.produced) = hw.limit)]_vars
    /\ dev.scan_info ~> [](~info.scan_running)

\* C36: scan_cleanup terminates.  Once stop_thread is set the producer
\* starts no further iteration and leaves its loop, it sends AINSCANSTOP
\* itself when scan_running is still true, the join returns, and then no
\* session exists and a new scan_start is accepted.
CleanupTerminates ==
    /\ (app.pc = "join") ~> (/\ app.pc = "idle" /\ app.op = "cleanup"
                             /\ result = "Success"
                             /\ ~dev.scan_info /\ info_heap = "freed"
                             /\ thr.pc = "none")
    /\ [][info.stop_thread /\ thr.pc = "loop" /\ thr' # thr
            => thr'.pc = "exit"]_vars
    /\ [][ThreadExit("Success") /\ info.scan_running => ~hw'.running]_vars
    /\ [][\A spc \in 1 .. MaxSpc, options \in {{}, {"EXTTRIGGER"}} :
            (/\ app.op = "cleanup" /\ result = "Success"
             /\ ScanStart(1, spc, options, 0, "none", "Timeout"))
                => app'.pc = "start_flag" /\ dev'.scan_info]_vars

\* a cleanup has ended a scan the board had not finished: the producer
\* stopped the board
CleanupStoppedScan ==
    /\ app.pc = "idle" /\ app.op = "cleanup" /\ result = "Success"
    /\ info_heap = "freed" /\ thr.pc = "none"
    /\ ~hw.running /\ hw.emitted < hw.limit

\* C37: scan_stop changes no field of the session, and the producer sets
\* done (and clears scan_running) only when it has enqueued every sample the
\* board reported: nothing is left on the board when it ends.
StopDrainsBoard ==
    /\ [][\A r \in XferResults :
            ScanStop(r) => info' = info /\ scan_buffer' = scan_buffer]_vars
    /\ [][(~thr.done /\ thr'.done)
            => (/\ hw'.avail = 0
                /\ Len(hist'.produced) = hw'.emitted
                /\ ~info'.scan_running)]_vars

\* C40: scan_read never copies more samples to the caller than its target
\* and than buffer_size_samples: at every point of a call and after it the
\* total copied is a multiple of channel_count, is at most the smaller of
\* the target and of buffer_size_samples rounded down to a multiple of
\* channel_count, and is samples_read_per_channel * channel_count.
ReadWithinBuffer ==
    (app.op = "scan_read" /\ info_heap = "live") =>
        LET samples_read_per_channel == app.nread \div info.channel_count
        IN /\ app.nread % info.channel_count = 0
           /\ app.nread <= Min(app.target,
                               COUNT_NORMALIZE(app.cap, info.channel_count))
           /\ app.nread = samples_read_per_channel * info.channel_count

\* C21: a scan_read called with samples_per_channel == -1 makes one pass
\* whatever its timeout: the check after the pass ends the call, the call
\* does not return Timeout, and it has copied the whole of its target.
ReadAllIgnoresTimeout ==
    /\ [][(app.pc = "rd_check" /\ app.read_all) => app'.pc # "rd_copy"]_vars
    /\ []((app.pc = "idle" /\ app.op = "scan_read" /\ app.read_all)
            => (result # "Timeout" /\ app.to_read = 0))

----------------------------------------------------------------------------
(* The SPI lock                                                            *)

InCall(c) == lk.pc[c] \notin {"idle", "sleep"}

\* C11: at most one caller is inside a transaction; a caller inside one
\* holds the lock; no SPI message goes between two messages of another call
\* or to a board its caller has not selected; a call that returned
\* LockTimeout has sent no SPI message.
BusExclusive ==
    /\ \A c, o \in Callers : (InCall(c) /\ InCall(o)) => c = o
    /\ \A c \in Callers : InCall(c) => lk.held[c] = 1
    /\ ~lk.interleaved /\ ~lk.misrouted
    /\ \A c \in Callers :
          (~InCall(c) /\ lk.res[c] = "LockTimeout") => lk.io[c] = 0

\* a caller gave up on the lock while another one was reading its reply
LockTimeoutDuringBody ==
    \E c, o \in Callers :
        /\ lk.res[c] = "LockTimeout" /\ ~InCall(c)
        /\ lk.pc[o] = "body" /\ lk.io[o] >= 2

\* C12: a caller that has returned, the producer in its sleep included,
\* holds no lock; a lock is released only by its holder and only once.
LockReleasedOnReturn ==
    /\ \A c \in Callers : ~InCall(c) => lk.held[c] = 0
    /\ \A c \in Callers : lk.held[c] <= 1
    /\ ~lk.unheld

\* the producer sleeps after a transfer that timed out, and the application
\* has the lock
ProducerSleepsUnlocked ==
    /\ lk.pc["thr"] = "sleep" /\ lk.res["thr"] = "Timeout"
    /\ lk.held["app"] = 1

----------------------------------------------------------------------------
(* The registry and the life of a session                                  *)

\* A session was started by scan_start and no scan_cleanup has released it.
SessionExists == info_heap = "live"

\* A configuration-changing call with valid parameters on the open device.
ConfigCall ==
    \/ \E channel \in Channels : CalWrite(channel, 3, 2)
    \/ \E r1 \in XferResults : IEPEWrite(0, 1, r1, "Success")
    \/ \E r \in XferResults : ClockWrite(1, r)
    \/ TriggerConfig(2, 3, "Success")
    \/ \E fail \in StartFails : ScanStart(1, 2, {}, 0, fail, "Timeout")

\* C3: while a session exists, every configuration-changing call on the open
\* device returns Busy, sends no SPI command and changes neither the device
\* record (trigger source and mode, coefficients) nor the session.
ConfigLockout ==
    [][(SessionExists /\ CheckAddr /\ ConfigCall)
         => /\ result' = "Busy"
            /\ app_cmds' = <<>>
            /\ UNCHANGED <<dev, sessVars>>]_vars

\* the last call was a scan_start that failed after it had allocated the
\* session: it sent at least the clock-configuration read
FailedStart ==
    /\ app.pc = "idle" /\ app.op = "scan_start"
    /\ result # "Success" /\ app_cmds # <<>>

CloseKeepsSession ==
    [][(/\ Close \/ (CleanupJoin /\ app.op = "close")
        /\ CheckAddr
        /\ dev.handle_count > 1)
         => (dev_ptr' /\ UNCHANGED <<sessVars, thr>>)]_vars

\* C6: close on an address whose record was freed returns BadParameter and
\* changes nothing; no free is ever applied to a record that is not live.
CloseAfterFree ==
    /\ [][(Close /\ ~dev_ptr /\ dev_heap = "freed")
            => /\ result' = "BadParameter"
               /\ app_cmds' = <<>>
               /\ UNCHANGED <<regVars, sessVars, thr, hw>>]_vars
    /\ [](~hist.bad_free)

\* close was called again after the close that freed the record
ClosedTwice ==
    /\ ~dev_ptr /\ dev_heap = "freed"
    /\ hist.closes_ok > 0
    /\ app.op = "close" /\ result = "BadParameter"

\* C7: the record exists exactly when more opens than closes have succeeded,
\* and its handle count is their difference.
RecordIffOpensExceedCloses ==
    /\ IsOpen = 1 <=> hist.opens_ok > hist.closes_ok
    /\ IsOpen = 1 => dev.handle_count = hist.opens_ok - hist.closes_ok

\* C8: open sends at most two ID commands, and returns Success only when one
\* of the attempts it made succeeded with the MCC 172's product id, whose
\* firmware version it has stored.
OpenSuccessMeansIdentified ==
    [][\A env \in OpenEnvs, replies \in [1 .. IdAttempts -> IdReplies] :
         (Open(env.hat, env.spi_ok, replies) /\ result' = "Success")
           => /\ Len(app_cmds') <= IdAttempts
              /\ \E k \in 1 .. Len(app_cmds') :
                    /\ replies[k].res = "Success"
                    /\ replies[k].id = HAT_ID_MCC_172
                    /\ dev'.fw_version = replies[k].ver]_vars

\* C38: while a session exists or the producer thread is alive, the device
\* record is in the registry and has not been freed.
RecordOutlivesSession ==
    (info_heap = "live" \/ thr.pc \notin {"none", "done", "crashed"})
        => (dev_ptr /\ dev_heap = "live")

\* C31: when open_for_update returns Success the record exists and the
\* handle count is one more than before the call; a device that was open
\* keeps its descriptor and its session.
UpdateOpenAddsOneHandle ==
    [][\A env \in OpenEnvs, replies \in [1 .. IdAttempts -> IdReplies] :
         (OpenForUpdate(env.hat, env.spi_ok, replies) /\ result' = "Success")
           => /\ dev_ptr'
              /\ dev'.handle_count = dev.handle_count + 1
              /\ dev_ptr => /\ dev'.spi_fd = dev.spi_fd
                            /\ dev'.scan_info = dev.scan_info]_vars

----------------------------------------------------------------------------
(* The transfer                                                            *)

\* the result the protocol gives a reply frame
FrameMeans(f, command) ==
    IF f.cmd # command THEN "BadParameter"
    ELSE CASE f.status = 0 -> "Success"
           [] f.status = 2 -> "BadParameter"
           [] f.status = 3 -> "Busy"
           [] f.status = 5 -> "Timeout"
           [] OTHER -> "Undefined"

\* C32: enter_bootloader holds the SPI lock while it works, gives at most 10
\* RESET pulses and none when IRQ is low at entry, and returns Timeout only
\* after polling IRQ for the full 100 ms, at 1 ms a poll.
BootloaderWaitsFully ==
    calc.fn = "boot" =>
        /\ calc.pc # "done" => calc.lock
        /\ calc.pulses <= 10
        /\ ~calc.irq_entry => calc.pulses = 0
        /\ calc.res = "Timeout" => calc.waited >= 100

\* C29: clock_config_write(rate) sends d - 1 for the divisor
\* d = clamp(round(51200 / rate), 1, 256), also for rates above 51200 and
\* for rates whose unclamped divisor is above 256, and the read that follows
\* reports 51200 / d.  (x = 51200 / rate rounds to d when
\* d - 1/2 <= x < d + 1/2; a rate of 0 has the divisor clamped to 256.)
ClockDivisorLaw ==
    calc.fn = "clock" =>
        LET d == calc.sent + 1
            x2 == 2 * MAX_SAMPLE_RATE * calc.den   \* 2 * x * num
            n == calc.num
        IN /\ d \in 1 .. 256
           /\ n > 0 /\ d > 1 => x2 >= (2 * d - 1) * n
           /\ n > 0 /\ d < 256 => x2 < (2 * d + 1) * n
           /\ n = 0 => d = 256
           /\ n < 0 => d = 1
           /\ calc.read.num * d = MAX_SAMPLE_RATE * calc.read.den

\* a rate so low that the unclamped divisor is above 256 was written, 255 was
\* sent and the rate 200 was read back
LowRateClamped ==
    /\ calc.fn = "clock" /\ calc.num > 0
    /\ 2 * MAX_SAMPLE_RATE * calc.den > 513 * calc.num
    /\ calc.sent = 255
    /\ calc.read.num = 200 * calc.read.den

\* C30: the three bytes (b0, b1, b2) of a sample, most significant first,
\* convert to the 24-bit value sign-extended from bit 23: a value v with
\* -8388608 <= v <= 8388607 and v mod 2^24 = b0 * 65536 + b1 * 256 + b2;
\* (0x80, 0, 0) gives -8388608, (0x7F, 0xFF, 0xFF) 8388607 and (0, 0, 1) 1.
SignExtension24 ==
    calc.fn = "sample" =>
        LET v == calc.value
            is(b0, b1, b2) == calc.b0 = b0 /\ calc.b1 = b1 /\ calc.b2 = b2
        IN /\ -8388608 <= v /\ v <= 8388607
           /\ v % 16777216 = calc.b0 * 65536 + calc.b1 * 256 + calc.b2
           /\ is(128, 0, 0) => v = -8388608
           /\ is(127, 255, 255) => v = 8388607
           /\ is(0, 0, 1) => v = 1

\* the most negative sample was converted
MostNegativeSample ==
    /\ calc.fn = "sample"
    /\ calc.b0 = 128 /\ calc.b1 = 0 /\ calc.b2 = 0
    /\ calc.value = -8388608

\* C28 as stated: the scan of the frame _create_frame builds for a command
\* and a payload, followed by other bytes, finds a frame at offset 0 whose
\* command and payload are those.
OutboundRoundTrip ==
    calc.fn = "outbound" =>
        /\ calc.scan.found_frame /\ calc.scan.frame_start = 0
        /\ FrameCommand(calc.stream, calc.scan) = calc.command
        /\ FramePayload(calc.stream, calc.scan) = calc.payload

\* C28 amended: the scan of a frame in the inbound layout (start, command,
\* status, count low, count high, payload), followed by other bytes, finds a
\* frame at offset 0 of 5 bytes plus the payload, whose command and payload
\* are those of the frame.
InboundRoundTrip ==
    calc.fn = "inbound" =>
        /\ calc.scan.found_frame /\ calc.scan.frame_start = 0
        /\ calc.scan.frame_length = MSG_RX_HEADER_SIZE + Len(calc.payload)
        /\ FrameCommand(calc.stream, calc.scan) = calc.command
        /\ FramePayload(calc.stream, calc.scan) = calc.payload

\* a frame with the largest payload, all start bytes, was found before the
\* bytes that follow it
LargestFrameFound ==
    /\ calc.fn = "inbound" /\ calc.scan.found_frame
    /\ Len(calc.payload) = MAX_TX_DATA_SIZE
    /\ calc.payload[1] = MSG_START
    /\ Len(calc.stream) > calc.scan.frame_length

\* C39: on a Success result the rx_data_count bytes a transfer copies to the
\* caller lie inside the bytes it read (the ready byte and read_amount more)
\* and inside the payload of the frame it found, wherever the frame starts
\* and whatever count the frame carries.
CopyInsideFrame ==
    (xf.pc = "done" /\ xf.found /\ xf.result = "Success") =>
        LET read_amount == xf.rx_data_count + MSG_RX_HEADER_SIZE
            \* the count bytes of the frame found, low byte first
            count == xf.rx_buffer[xf.frame_start + 4]
                     + 256 * xf.rx_buffer[xf.frame_start + 5]
        IN /\ xf.frame_start + MSG_RX_HEADER_SIZE + xf.rx_data_count
                  <= read_amount + 1
           /\ xf.rx_data_count <= count

\* C9: when a transfer has found a reply frame, its result is the one the
\* frame's command and status bytes give; the caller's buffer is written
\* exactly when that is Success, and then holds the frame's payload bytes as
\* far as the caller asked for them.
FrameDecidesResult ==
    (xf.pc = "done" /\ xf.found) =>
        /\ xf.result = FrameMeans(xf.frame, xf.command)
        /\ xf.copied <=> (xf.result = "Success" /\ xf.rx_data_count > 0)
        /\ xf.copied =>
              \A k \in 1 .. Min(xf.frame.count, xf.rx_data_count) :
                  xf.rx_data[k] = PayloadByte(k)
        /\ ~xf.copied => xf.rx_data = <<>>

\* a transfer found a frame of its command with status 0 and copied the
\* payload the caller asked for
PayloadCopied ==
    /\ xf.pc = "done" /\ xf.found /\ xf.result = "Success" /\ xf.copied
    /\ xf.frame.count = xf.rx_data_count

\* C10: a transfer whose board never returned a non-zero ready byte returns
\* Timeout only once more than reply_timeout has passed on the monotonic
\* clock since the ready-poll began.
PollTimeoutAfterDeadline ==
    (xf.pc = "done" /\ xf.result = "Timeout" /\ ~xf.ready)
        => xf.now - xf.begin > xf.reply_timeout

====
